---------------------------- MODULE Spec2Model ----------------------------
(***************************************************************************)
(* A model of the analytics repository's prospect-ranking and chat-insight *)
(* code: heuristicScore and the stargazer ranking (script and route), the  *)
(* unanswered-question detector and kmeans of generate_semantic_insights,  *)
(* the example lookup, the topic and examples indexes with their repair,   *)
(* the Discord fetch loop, and the stats, insights and seed routes.        *)
(*                                                                         *)
(* Text is modelled at character level: a JavaScript string is a TLA+      *)
(* string, read with Len, SubSeq and \o.  A JavaScript value that may be   *)
(* null, a string or a number is a record [t, s, n] (see JsNull .. JsNaN). *)
(***************************************************************************)
EXTENDS Integers, Sequences, FiniteSets, TLC

VARIABLES
    sg,             \* heuristicScore: the stargazer record handed to it
    scored,         \* heuristicScore: the value it returned
    spc,            \* heuristicScore: "input" before the call, "done" after
    rankReq,        \* ranking: the inputs of the last ranking operation
    rankResp,       \* ranking: what the last ranking operation produced
    ghInteresting,  \* ranking: the rows of D1 table gh_interesting
    messages,       \* question detector: the message list read from the file
    questions,      \* question detector: the texts pushed as unanswered
    answeredBy,     \* question detector: per position, the j at which the inner
                    \* loop set answered (0: not a question, or never set)
    qpc,            \* question detector: "input" before the loop, "done" after
    vectors,        \* kmeans: the input vectors
    kArg,           \* kmeans: the argument k
    centers,        \* kmeans: the centers array
    assign,         \* kmeans: the assign array
    it,             \* kmeans: the loop counter
    kpc,            \* kmeans: "start", "loop", "returned"
    tkInput,        \* tokenize: the argument, a string or an absent value
    tkTokens,       \* tokenize: the array it returned
    tkDoc,          \* tokenize: the document main builds from the same text
    tkAgain,        \* tokenize: the tokens of the returned tokens joined by spaces
    tkpc,            \* tokenize: "input", "tokenized", "document", "rejoined"
    lkReq,          \* example lookup: the query parameters of the request
    lkEnv,          \* example lookup: the message file, D1, the index files and the model's reply
    lkResp,         \* example lookup: the items answered and the branch that produced them
    lkpc,            \* example lookup: "request" before GET runs, "answered" after
    tpMessages,     \* topics: the messages read from the channel's file
    tpDocs,         \* topics: docs, the token lists of the messages that keep 3 tokens or more
    tpClusters,     \* topics: clusters, each group index with the indexes of its documents
    tpTopics,       \* topics: the topics pushed so far
    tpExamples,     \* topics: topicExamples, the example payloads of each topic name
    tpIndex,        \* topics: the topic index written at the end
    tppc,            \* topics: "read", "clustered", "written", "repaired", "indexed"
    ftChannel,      \* fetch: the channel on the server, newest message first
    ftCutoff,       \* fetch: cutoff, 0 when no since argument was given
    ftBefore,       \* fetch: before, the empty string for null
    ftPages,        \* fetch: pages, the loop counter
    ftBatch,        \* fetch: the last batch received
    ftSaved,        \* fetch: messages, the list saved at the end
    ftpc,            \* fetch: "loop", "failed", "after", "saved"
    stReq,          \* stats: the from and to parameters of the request, 0 when absent
    stEnv,          \* stats: what DISCORD_JSON_URL, the two static files and the raw file answer
    stMsgs,         \* stats: msgs, what readDiscordMessages returned
    stResp,         \* stats: the body answered by GET
    stpc,            \* stats: "request" before GET runs, "answered" after
    inTable,        \* insights: the rows of D1 table insights of one uid, by kind
    inNow,          \* insights: Date.now(), in milliseconds
    inReq,          \* insights: the last request and what its collaborators did
    inPrev,         \* insights: the row of the request's kind before the request
    inResp,         \* insights: what GET answered, and whether it called the model
    inpc,            \* insights: "serving" while requests are served
    sdReq,          \* seed: the Authorization header of the request, empty when absent
    sdEnv,          \* seed: SEED_TOKEN, the three static files and the write that fails
    sdTables,       \* seed: the rows of the D1 tables the handler writes
    sdResp,         \* seed: the status answered
    sdpc            \* seed: "request" before POST runs, "answered" after

vars == <<sg, scored, spc, rankReq, rankResp, ghInteresting,
          messages, questions, answeredBy, qpc, vectors, kArg, centers, assign, it, kpc,
          tkInput, tkTokens, tkDoc, tkAgain, tkpc,
          lkReq, lkEnv, lkResp, lkpc,
          tpMessages, tpDocs, tpClusters, tpTopics, tpExamples, tpIndex, tppc,
          ftChannel, ftCutoff, ftBefore, ftPages, ftBatch, ftSaved, ftpc,
          stReq, stEnv, stMsgs, stResp, stpc,
          inTable, inNow, inReq, inPrev, inResp, inpc,
          sdReq, sdEnv, sdTables, sdResp, sdpc>>

scoreVars == <<sg, scored, spc>>
rankVars == <<rankReq, rankResp, ghInteresting>>
questionVars == <<messages, questions, answeredBy, qpc>>
kmeansVars == <<vectors, kArg, centers, assign, it, kpc>>
tokenVars == <<tkInput, tkTokens, tkDoc, tkAgain, tkpc>>
lookupVars == <<lkReq, lkEnv, lkResp, lkpc>>
topicVars == <<tpMessages, tpDocs, tpClusters, tpTopics, tpExamples, tpIndex, tppc>>
fetchVars == <<ftChannel, ftCutoff, ftBefore, ftPages, ftBatch, ftSaved, ftpc>>
statsVars == <<stReq, stEnv, stMsgs, stResp, stpc>>
insightVars == <<inTable, inNow, inReq, inPrev, inResp, inpc>>
seedVars == <<sdReq, sdEnv, sdTables, sdResp, sdpc>>

-----------------------------------------------------------------------------
(* JavaScript strings *)

Min(a, b) == IF a < b THEN a ELSE b
Max(a, b) == IF a > b THEN a ELSE b

UpperChars == "ABCDEFGHIJKLMNOPQRSTUVWXYZ"
LowerChars == "abcdefghijklmnopqrstuvwxyz"

CharAt(s, i) == SubSeq(s, i, i)

\* The set of the characters of a string.
CharsOf(s) == {CharAt(s, i) : i \in 1..Len(s)}

UpperSet == CharsOf(UpperChars)

\* The lower-case letter of each upper-case letter.
LowerOf ==
    [c \in UpperSet |->
        CharAt(LowerChars, CHOOSE i \in 1..Len(UpperChars) : CharAt(UpperChars, i) = c)]

LowerChar(c) == IF c \in UpperSet THEN LowerOf[c] ELSE c

RECURSIVE ToLowerCase(_)
ToLowerCase(s) ==
    IF Len(s) = 0 THEN ""
    ELSE LowerChar(CharAt(s, 1)) \o ToLowerCase(SubSeq(s, 2, Len(s)))

StartsWith(s, p) == Len(p) <= Len(s) /\ SubSeq(s, 1, Len(p)) = p

\* String.prototype.includes
Includes(s, p) ==
    \E i \in 1..(Len(s) - Len(p) + 1) : SubSeq(s, i, i + Len(p) - 1) = p

\* .join('') whatever the separator asked for.
RECURSIVE JoinNoSeparator(_, _)
JoinNoSeparator(parts, sep) ==
    IF Len(parts) = 0 THEN ""
    ELSE parts[1] \o JoinNoSeparator(Tail(parts), sep)

RECURSIVE Join(_, _)
Join(parts, sep) ==
    IF Len(parts) = 0 THEN ""
    ELSE IF Len(parts) = 1 THEN parts[1]
    ELSE parts[1] \o sep \o Join(Tail(parts), sep)

\* A regular expression that is an alternation of literals, tested on the
\* lower-cased subject (the /i flag, all literals being lower case).
RegexTestI(alternatives, s) ==
    \E a \in alternatives : Includes(ToLowerCase(s), a)

\* .slice(0, n)
Slice0(seq, n) == SubSeq(seq, 1, Min(n, Len(seq)))

-----------------------------------------------------------------------------
(* JavaScript values: null/undefined, a string, a number, NaN *)

JsNull == [t |-> "null", s |-> "", n |-> 0]
JsStr(x) == [t |-> "str", s |-> x, n |-> 0]
JsNum(x) == [t |-> "num", s |-> "", n |-> x]
JsNaN == [t |-> "nan", s |-> "", n |-> 0]

Truthy(v) ==
    CASE v.t = "null" -> FALSE
      [] v.t = "str" -> v.s # ""
      [] v.t = "num" -> v.n # 0
      [] v.t = "nan" -> FALSE

\* typeof v === 'number'
TypeofNumber(v) == v.t \in {"num", "nan"}

\* v >= bound for a value whose typeof is 'number' (false for NaN)
NumGe(v, bound) == v.t = "num" /\ v.n >= bound

-----------------------------------------------------------------------------
(* heuristicScore *)

titleBoost ==
    {"cto", "chief technology", "vp eng", "vp of engineering", "head of eng",
     "director of eng", "founder", "co-founder", "co founder", "principal"}

companyBoost ==
    {"openai", "google", "microsoft", "amazon", "aws", "meta", "facebook",
     "datadog", "vercel", "cloudflare", "hashicorp", "stripe", "uber",
     "airbnb", "netflix", "snowflake"}

KnownCompanyPoints == 12
SeniorTitlePoints == 16
OrgPoints == 6
LargeMembersPoints == 16
MediumMembersPoints == 8
LargeMembers == 50
MediumMembers == 10

\* score += points; reasons.push(fragment)
Bump(acc, points, fragment) ==
    [score |-> acc.score + points, reasons |-> Append(acc.reasons, fragment)]

\* The mutant: the senior-title rule made an else-branch of the company rule.
heuristicScoreElseTitle(s) ==
    LET a0 == [score |-> 0, reasons |-> <<>>]
        a1 == IF Truthy(s.company) /\ RegexTestI(companyBoost, s.company.s)
              THEN Bump(a0, KnownCompanyPoints, "known tech company")
              ELSE IF Truthy(s.company) /\ RegexTestI(titleBoost, s.company.s)
                   THEN Bump(a0, SeniorTitlePoints, "senior title")
                   ELSE a0
        a3 == IF Truthy(s.company_org)
              THEN Bump(a1, OrgPoints, "org @" \o s.company_org.s)
              ELSE a1
        a4 == IF TypeofNumber(s.company_public_members)
              THEN IF NumGe(s.company_public_members, LargeMembers)
                   THEN Bump(a3, LargeMembersPoints, "large public member count")
                   ELSE IF NumGe(s.company_public_members, MediumMembers)
                        THEN Bump(a3, MediumMembersPoints, "medium public member count")
                        ELSE a3
              ELSE a3
        joined == Join(a4.reasons, ", ")
    IN  [score |-> a4.score,
         reason |-> IF joined = "" THEN "baseline" ELSE joined]

\* The mutant: the medium rule no longer an else-branch of the large rule.
heuristicScoreBothMembers(s) ==
    LET a0 == [score |-> 0, reasons |-> <<>>]
        a1 == IF Truthy(s.company) /\ RegexTestI(companyBoost, s.company.s)
              THEN Bump(a0, KnownCompanyPoints, "known tech company")
              ELSE a0
        a2 == IF Truthy(s.company) /\ RegexTestI(titleBoost, s.company.s)
              THEN Bump(a1, SeniorTitlePoints, "senior title")
              ELSE a1
        a3 == IF Truthy(s.company_org)
              THEN Bump(a2, OrgPoints, "org @" \o s.company_org.s)
              ELSE a2
        a4 == IF NumGe(s.company_public_members, LargeMembers)
              THEN Bump(a3, LargeMembersPoints, "large public member count")
              ELSE a3
        a5 == IF NumGe(s.company_public_members, MediumMembers)
              THEN Bump(a4, MediumMembersPoints, "medium public member count")
              ELSE a4
        joined == Join(a5.reasons, ", ")
    IN  [score |-> a5.score,
         reason |-> IF joined = "" THEN "baseline" ELSE joined]

heuristicScore(s) ==
    LET a0 == [score |-> 0, reasons |-> <<>>]
        a1 == IF Truthy(s.company) /\ RegexTestI(companyBoost, s.company.s)
              THEN Bump(a0, KnownCompanyPoints, "known tech company")
              ELSE a0
        a2 == IF Truthy(s.company) /\ RegexTestI(titleBoost, s.company.s)
              THEN Bump(a1, SeniorTitlePoints, "senior title")
              ELSE a1
        a3 == IF Truthy(s.company_org)
              THEN Bump(a2, OrgPoints, "org @" \o s.company_org.s)
              ELSE a2
        a4 == IF TypeofNumber(s.company_public_members)
              THEN IF NumGe(s.company_public_members, LargeMembers)
                   THEN Bump(a3, LargeMembersPoints, "large public member count")
                   ELSE IF NumGe(s.company_public_members, MediumMembers)
                        THEN Bump(a3, MediumMembersPoints, "medium public member count")
                        ELSE a3
              ELSE a3
        joined == Join(a4.reasons, ", ")
    IN  [score |-> a4.score,
         reason |-> IF joined = "" THEN "baseline" ELSE joined]

\* The stargazer records heuristicScore is applied to: every combination of
\* an absent, empty or present company, company_org and member count.
Companies ==
    {JsNull, JsStr(""), JsStr("Acme"), JsStr("OpenAI"), JsStr("Founder"),
     JsStr("CTO @ OpenAI"), JsStr("Co-Founder, Stripe"), JsStr("baseline")}

CompanyOrgs == {JsNull, JsStr(""), JsStr("openai"), JsStr("acme")}

MemberCounts ==
    {JsNull, JsNaN, JsStr("120"), JsNum(-1), JsNum(0), JsNum(9), JsNum(10),
     JsNum(49), JsNum(50), JsNum(120)}

Stargazers ==
    [login : {"alice"}, company : Companies, company_org : CompanyOrgs,
     company_public_members : MemberCounts]

NoScore == [score |-> 0, reason |-> ""]


BaselineStargazer ==
    [login |-> "alice", company |-> JsNull, company_org |-> JsNull,
     company_public_members |-> JsNull]

\* const r = heuristicScore(s)
CallHeuristicScore ==
    /\ spc = "input"
    /\ scored' = heuristicScore(sg)
    /\ spc' = "done"
    /\ UNCHANGED <<sg, rankVars, questionVars, kmeansVars, tokenVars, lookupVars, topicVars, fetchVars, statsVars, insightVars, seedVars>>

\* C1: for every stargazer record, heuristicScore returns a score between 0
\* and 50, and its reason is the literal "baseline" exactly when the score is 0.
C1_ScoreBounded ==
    spc = "done" =>
        /\ 0 <= scored.score
        /\ scored.score <= 50
        /\ (scored.reason = "baseline" <=> scored.score = 0)

\* A record on which every rule fires: the upper bound is reached.
C1_Witness ==
    /\ spc = "done"
    /\ scored.score = 50
    /\ scored.reason # "baseline"

\* C2: the score is the sum of four independent signals (12 known company,
\* 16 senior title, 6 non-empty company_org, 16 for >= 50 members or else 8 for
\* >= 10), both company rules may fire together, the two member rules never do,
\* and reason is the fragments of the signals that fired, one each, in order.
C2_ScoreIsSumOfSignals ==
    spc = "done" =>
        LET hasCompany == sg.company.t = "str" /\ sg.company.s # ""
            known == hasCompany /\ \E a \in companyBoost : Includes(ToLowerCase(sg.company.s), a)
            senior == hasCompany /\ \E a \in titleBoost : Includes(ToLowerCase(sg.company.s), a)
            org == sg.company_org.t = "str" /\ sg.company_org.s # ""
            m == sg.company_public_members
            large == m.t = "num" /\ m.n >= 50
            medium == m.t = "num" /\ m.n >= 10 /\ m.n < 50
            frags == (IF known THEN <<"known tech company">> ELSE <<>>)
                     \o (IF senior THEN <<"senior title">> ELSE <<>>)
                     \o (IF org THEN <<"org @" \o sg.company_org.s>> ELSE <<>>)
                     \o (IF large THEN <<"large public member count">> ELSE <<>>)
                     \o (IF medium THEN <<"medium public member count">> ELSE <<>>)
        IN  /\ scored.score = (IF known THEN 12 ELSE 0) + (IF senior THEN 16 ELSE 0)
                              + (IF org THEN 6 ELSE 0)
                              + (IF large THEN 16 ELSE IF medium THEN 8 ELSE 0)
            /\ scored.reason = (IF frags = <<>> THEN "baseline" ELSE Join(frags, ", "))
            /\ ~ (Includes(scored.reason, "large public member count")
                  /\ Includes(scored.reason, "medium public member count"))
            /\ (sg.company = JsStr("CTO @ OpenAI") /\ sg.company_org = JsStr("openai")
                /\ m = JsNum(120))
               => /\ scored.score = 50
                  /\ scored.reason = "known tech company, senior title, org @openai, large public member count"

\* The spec's scenario: {company: "CTO @ OpenAI", company_org: "openai",
\* company_public_members: 120} scored, both company rules having fired.
C2_Witness ==
    /\ spc = "done"
    /\ sg.company = JsStr("CTO @ OpenAI")
    /\ sg.company_org = JsStr("openai")
    /\ sg.company_public_members = JsNum(120)
    /\ Includes(scored.reason, "known tech company, senior title")

-----------------------------------------------------------------------------
(* The stargazer ranking: main of generate_interesting_stargazers and the *)
(* two GET handlers of /api/github/interesting                            *)

BatchSize == 60
ScriptMax == 200
ScriptTop == 50
GetMax == 120
GetTop == 30
ScoreFloor == 0
ScoreCeiling == 100

Digits == "0123456789"
DigitSet == CharsOf(Digits)
DigitOf == [c \in DigitSet |-> CHOOSE d \in 0..9 : CharAt(Digits, d + 1) = c]

IsDigits(s) == Len(s) > 0 /\ \A i \in 1..Len(s) : CharAt(s, i) \in DigitSet

RECURSIVE DigitsValue(_, _)
DigitsValue(s, acc) ==
    IF s = "" THEN acc
    ELSE DigitsValue(SubSeq(s, 2, Len(s)), 10 * acc + DigitOf[CharAt(s, 1)])

\* Number(v) for null, a number, and a string that is empty, an integer
\* numeral or no numeral at all (blanks, fractions, exponents and hexadecimal
\* numerals are not among the strings used here).
ToNumber(v) ==
    CASE v.t = "null" -> JsNum(0)
      [] v.t = "num" -> v
      [] v.t = "nan" -> v
      [] v.t = "str" ->
            IF v.s = "" THEN JsNum(0)
            ELSE IF IsDigits(v.s) THEN JsNum(DigitsValue(v.s, 0))
            ELSE IF StartsWith(v.s, "-") /\ IsDigits(SubSeq(v.s, 2, Len(v.s)))
                 THEN JsNum(0 - DigitsValue(SubSeq(v.s, 2, Len(v.s)), 0))
            ELSE JsNaN

\* Math.max(0, Math.min(100, sc)): NaN when sc is NaN.
Clamp(sc) ==
    IF sc.t = "nan" THEN JsNaN
    ELSE JsNum(Max(ScoreFloor, Min(ScoreCeiling, sc.n)))

\* String(v || fallback) for null and strings.
StringOr(v, fallback) == IF Truthy(v) THEN v.s ELSE fallback

\* One element of parsed.rank: each field null (or absent), a string or a number.
RankEntry(login, score, reason) == [login |-> login, score |-> score, reason |-> reason]

NoScores == [x \in {} |-> [score |-> JsNum(0), reason |-> ""]]

\* scores.set(login, value)
MapSet(scores, login, value) ==
    [x \in DOMAIN scores \cup {login} |-> IF x = login THEN value ELSE scores[x]]

\* for (const r of rank) { const login = String(r?.login || ''); if (!login) continue;
\*   const sc = Number(r?.score ?? 0); const rs = String(r?.reason || 'LLM ranked');
\*   scores.set(login, { score: Math.max(0, Math.min(100, sc)), reason: rs }); }
RECURSIVE ApplyRank(_, _, _)
ApplyRank(scores, rank, i) ==
    IF i > Len(rank) THEN scores
    ELSE LET r == rank[i]
             login == StringOr(r.login, "")
             sc == ToNumber(r.score)
             rs == StringOr(r.reason, "LLM ranked")
         IN  IF login = "" THEN ApplyRank(scores, rank, i + 1)
             ELSE ApplyRank(MapSet(scores, login, [score |-> Clamp(sc), reason |-> rs]),
                            rank, i + 1)

\* A reply of the model to one batch: the call throws, the content is not
\* JSON, or the content is JSON whose rank is an array (hasRank) or not.
ReplyThrows == [kind |-> "throw", hasRank |-> FALSE, rank |-> <<>>]
ReplyNotJson == [kind |-> "invalid", hasRank |-> FALSE, rank |-> <<>>]
ReplyJson(hasRank, rank) == [kind |-> "json", hasRank |-> hasRank, rank |-> rank]

\* The batch loop: batch b reads replies[b]; a throwing call or JSON.parse
\* leaves the loop through the catch.
RECURSIVE LlmScores(_, _, _, _)
LlmScores(take, replies, b, scores) ==
    IF (b - 1) * BatchSize >= Len(take) THEN [thrown |-> FALSE, scores |-> scores]
    ELSE LET r == replies[b]
         IN  IF r.kind # "json" THEN [thrown |-> TRUE, scores |-> scores]
             ELSE LlmScores(take, replies, b + 1,
                            ApplyRank(scores, IF r.hasRank THEN r.rank ELSE <<>>, 1))

\* { login: s.login, ...heuristicScore(s) }
HeuristicItem(s) ==
    LET h == heuristicScore(s)
    IN  [login |-> s.login, score |-> JsNum(h.score), reason |-> h.reason]

\* { login: s.login, ...(scores.get(s.login) || heuristicScore(s)) }
ScoredItem(scores, s) ==
    IF s.login \in DOMAIN scores
    THEN [login |-> s.login, score |-> scores[s.login].score, reason |-> scores[s.login].reason]
    ELSE HeuristicItem(s)

HeuristicRanked(list) == [i \in 1..Len(list) |-> HeuristicItem(list[i])]

ScoredRanked(scores, list) == [i \in 1..Len(list) |-> ScoredItem(scores, list[i])]

\* ranked.sort((a, b) => b.score - a.score) for numeric scores: stable and
\* descending, so an item's place is the count of the items that go before it.
PlaceDesc(seq, i) ==
    1 + Cardinality({j \in 1..Len(seq) :
                        \/ seq[j].score.n > seq[i].score.n
                        \/ seq[j].score.n = seq[i].score.n /\ j < i})

\* SubSeq(x, 1, Len(x)) is x, held as a tuple whose elements are computed once.
SortDesc(seq) ==
    LET s == SubSeq(seq, 1, Len(seq))
        place == SubSeq([i \in 1..Len(s) |-> PlaceDesc(s, i)], 1, Len(s))
    IN  [q \in 1..Len(s) |-> s[CHOOSE i \in 1..Len(s) : place[i] = q]]

HasNaN(seq) == \E i \in 1..Len(seq) : seq[i].score.t = "nan"

Orderings(seq) ==
    {[i \in 1..Len(seq) |-> seq[p[i]]] :
        p \in {q \in [1..Len(seq) -> 1..Len(seq)] :
                  \A x, y \in 1..Len(seq) : x # y => q[x] # q[y]}}

\* The results sort may leave: with a NaN score b.score - a.score is no
\* consistent comparator and the order is implementation-defined.
SortOutcomes(seq) == IF HasNaN(seq) THEN Orderings(seq) ELSE {SortDesc(seq)}

\* The mutant: the try block without its catch.
ScriptRankedNoCatch(stargazers, apiKey, replies) ==
    IF Truthy(apiKey)
    THEN LET take == Slice0(stargazers, Min(ScriptMax, Len(stargazers)))
             r == LlmScores(take, replies, 1, NoScores)
         IN  IF r.thrown
             THEN [failed |-> TRUE, source |-> "none", ranked |-> <<>>, llm |-> {}]
             ELSE [failed |-> FALSE, source |-> "llm",
                   ranked |-> ScoredRanked(r.scores, Slice0(stargazers, ScriptMax)),
                   llm |-> DOMAIN r.scores]
    ELSE [failed |-> FALSE, source |-> "heuristic",
          ranked |-> HeuristicRanked(Slice0(stargazers, ScriptMax)), llm |-> {}]

\* main of the script from the API key to ranked, before the sort.  source
\* and llm are not values of the program: they record which branch built
\* ranked and which logins the model scored.
ScriptRanked(stargazers, apiKey, replies) ==
    IF Truthy(apiKey)
    THEN LET take == Slice0(stargazers, Min(ScriptMax, Len(stargazers)))
             r == LlmScores(take, replies, 1, NoScores)
         IN  IF r.thrown
             THEN [failed |-> FALSE, source |-> "heuristic",
                   ranked |-> HeuristicRanked(Slice0(stargazers, ScriptMax)), llm |-> {}]
             ELSE [failed |-> FALSE, source |-> "llm",
                   ranked |-> ScoredRanked(r.scores, Slice0(stargazers, ScriptMax)),
                   llm |-> DOMAIN r.scores]
    ELSE [failed |-> FALSE, source |-> "heuristic",
          ranked |-> HeuristicRanked(Slice0(stargazers, ScriptMax)), llm |-> {}]

\* The try block of the GET handlers: done when the model ranked every batch.
LlmStage(stargazers, apiKey, force, replies) ==
    IF Truthy(apiKey) /\ force # "static"
    THEN LET take == Slice0(stargazers, Min(GetMax, Len(stargazers)))
             r == LlmScores(take, replies, 1, NoScores)
         IN  IF r.thrown THEN [done |-> FALSE, ranked |-> <<>>, llm |-> {}]
             ELSE [done |-> TRUE, ranked |-> ScoredRanked(r.scores, take),
                   llm |-> DOMAIN r.scores]
    ELSE [done |-> FALSE, ranked |-> <<>>, llm |-> {}]

\* The rows of gh_interesting joined with gh_stargazers for the one uid, in
\* rowid order.  A NaN score is bound as NULL.
StoredRow(item) ==
    [login |-> item.login,
     score |-> IF item.score.t = "nan" THEN JsNull ELSE item.score,
     reason |-> item.reason]

\* INSERT ... ON CONFLICT(uid,login) DO UPDATE SET score=excluded.score, ...
Upsert(table, item) ==
    IF \E i \in 1..Len(table) : table[i].login = item.login
    THEN [i \in 1..Len(table) |->
            IF table[i].login = item.login THEN StoredRow(item) ELSE table[i]]
    ELSE Append(table, StoredRow(item))

\* for (const it of items) { await d1Run(...); await d1Run(...); } with the
\* database absent (every d1Run is false), present, or present and refusing
\* to bind NaN ("strict": that item's d1Run is false).
RECURSIVE UpsertAll(_, _, _, _)
UpsertAll(table, items, i, db) ==
    IF db = "absent" \/ i > Len(items) THEN table
    ELSE IF db = "strict" /\ items[i].score.t = "nan"
         THEN UpsertAll(table, items, i + 1, db)
         ELSE UpsertAll(Upsert(table, items[i]), items, i + 1, db)

\* ORDER BY i.score DESC: NULL below every number, equal scores in rowid order.
RECURSIVE InsertRow(_, _)
InsertRow(sorted, x) ==
    IF sorted = <<>> THEN <<x>>
    ELSE IF x.score.t = "null" \/ (Head(sorted).score.t = "num" /\ Head(sorted).score.n >= x.score.n)
         THEN <<Head(sorted)>> \o InsertRow(Tail(sorted), x)
         ELSE <<x>> \o sorted

RECURSIVE RowsByScore(_, _, _)
RowsByScore(table, i, sorted) ==
    IF i > Len(table) THEN sorted
    ELSE RowsByScore(table, i + 1, InsertRow(sorted, table[i]))

\* d1All(SELECT ... ORDER BY i.score DESC LIMIT 30): [] without a database.
Cached(table, db) ==
    IF db = "absent" THEN <<>> ELSE Slice0(RowsByScore(table, 1, <<>>), GetTop)

Request(op, readable, stargazers, apiKey, force, replies, static1, static2, db) ==
    [op |-> op, readable |-> readable, stargazers |-> stargazers, apiKey |-> apiKey,
     force |-> force, replies |-> replies, static1 |-> static1, static2 |-> static2,
     db |-> db]

NoRequest == Request("none", FALSE, <<>>, JsNull, "", <<>>, <<>>, <<>>, "absent")

\* What the operation leaves: the list written or sent, and its source field.
Response(outcome, source, items, llm) ==
    [outcome |-> outcome, source |-> source, items |-> items, llm |-> llm]

NoResponse == Response("none", "none", <<>>, {})

Alice ==
    [login |-> "alice", company |-> JsStr("CTO @ OpenAI"), company_org |-> JsStr("openai"),
     company_public_members |-> JsNum(120)]

Bob ==
    [login |-> "bob", company |-> JsStr("Acme"), company_org |-> JsNull,
     company_public_members |-> JsNum(10)]

Carol ==
    [login |-> "carol", company |-> JsNull, company_org |-> JsNull,
     company_public_members |-> JsNull]

Crowd(i) ==
    [login |-> "u" \o ToString(i), company |-> JsNull, company_org |-> JsNull,
     company_public_members |-> JsNull]

\* Lists of one batch, and one list of two batches.
FewStargazers == {<<>>, <<Alice>>, <<Carol, Alice>>, <<Bob, Carol, Alice>>}

\* The lists the caching handler is asked about.
CachedStargazers == {<<>>, <<Alice>>, <<Carol, Alice>>}

ManyStargazers ==
    [i \in 1..(BatchSize + 1) |->
        IF i = 1 THEN Bob ELSE IF i = BatchSize + 1 THEN Alice ELSE Crowd(i)]

\* {}
ReplyNoRank == ReplyJson(FALSE, <<>>)

\* {"rank":[{"login":"alice","score":85,"reason":"VP Eng"}]}
ReplyInRange == ReplyJson(TRUE, <<RankEntry(JsStr("alice"), JsNum(85), JsStr("VP Eng"))>>)

\* {"rank":[{"login":"alice","score":150},{"login":"bob","score":-5,"reason":""},
\*          {"score":50,"reason":"x"},{"login":"carol","reason":"y"}]}
ReplyOutOfRange ==
    ReplyJson(TRUE, <<RankEntry(JsStr("alice"), JsNum(150), JsNull),
                      RankEntry(JsStr("bob"), JsNum(-5), JsStr("")),
                      RankEntry(JsNull, JsNum(50), JsStr("x")),
                      RankEntry(JsStr("carol"), JsNull, JsStr("y"))>>)

\* {"rank":[{"login":"alice","score":"high","reason":"buyer"},
\*          {"login":"bob","score":"70","reason":"lead"}]}
ReplyNonNumeric ==
    ReplyJson(TRUE, <<RankEntry(JsStr("alice"), JsStr("high"), JsStr("buyer")),
                      RankEntry(JsStr("bob"), JsStr("70"), JsStr("lead"))>>)

OneBatchReplies ==
    {<<r>> : r \in {ReplyThrows, ReplyNotJson, ReplyNoRank, ReplyInRange,
                    ReplyOutOfRange, ReplyNonNumeric}}

TwoBatchReplies ==
    {<<r1, r2>> : r1 \in {ReplyInRange, ReplyOutOfRange},
                  r2 \in {ReplyThrows, ReplyNotJson, ReplyInRange, ReplyOutOfRange}}
    \cup {<<ReplyThrows, ReplyInRange>>, <<ReplyNotJson, ReplyInRange>>}

Keys == {JsNull, JsStr("sk-test")}

Forces == {"", "static", "live"}

\* interesting_stargazers.json: <<>> when the fetch fails, the body is not a
\* JSON array or the array is empty.
Snapshot == <<[login |-> "alice", score |-> JsNum(97), reason |-> "series B, VP Eng"]>>

Snapshots == {<<>>, Snapshot}

\* The two fetches of the caching handler; the second is not reached when
\* the first finds the snapshot.
SnapshotFetches == {<<<<>>, <<>>>>, <<<<>>, Snapshot>>, <<Snapshot, <<>>>>}

Databases == {"absent", "present", "strict"}

\* The stargazer lists and the model's replies an operation may meet.
Workloads ==
    {<<s, r>> : s \in FewStargazers, r \in OneBatchReplies}
    \cup {<<ManyStargazers, r>> : r \in TwoBatchReplies}

\* main of generate_interesting_stargazers.mjs: exits with 1 when the
\* snapshot cannot be read, writes [] for no stargazers, else writes items.
RunScript ==
    /\ rankReq = NoRequest
    /\ \E w \in Workloads, key \in Keys, readable \in BOOLEAN :
        LET stargazers == IF readable THEN w[1] ELSE <<>>
            r == ScriptRanked(stargazers, key, w[2])
        IN  /\ rankReq' = Request("script", readable, stargazers, key, "", w[2],
                                  <<>>, <<>>, "absent")
            /\ IF ~ readable \/ r.failed
               THEN rankResp' = Response("failed", "none", <<>>, {})
               ELSE IF Len(stargazers) = 0
               THEN rankResp' = Response("ok", "none", <<>>, {})
               ELSE \E sorted \in SortOutcomes(r.ranked) :
                        rankResp' = Response("ok", r.source, Slice0(sorted, ScriptTop), r.llm)
    /\ UNCHANGED ghInteresting
    /\ UNCHANGED <<scoreVars, questionVars, kmeansVars, tokenVars, lookupVars, topicVars, fetchVars, statsVars, insightVars, seedVars>>

\* GET of the handler without a cache: the model, then the static snapshot
\* unless force=live, then heuristicScore.
GetInteresting ==
    /\ rankReq = NoRequest
    /\ \E w \in Workloads, key \in Keys, force \in Forces, static2 \in Snapshots :
        LET stargazers == w[1]
            l == LlmStage(stargazers, key, force, w[2])
        IN  /\ rankReq' = Request("get", TRUE, stargazers, key, force, w[2],
                                  <<>>, static2, "absent")
            /\ IF Len(stargazers) = 0
               THEN rankResp' = Response("ok", "none", <<>>, {})
               ELSE IF l.done
               THEN \E sorted \in SortOutcomes(l.ranked) :
                        rankResp' = Response("ok", "llm", Slice0(sorted, GetTop), l.llm)
               ELSE IF force # "live" /\ Len(static2) > 0
               THEN rankResp' = Response("ok", "static", static2, {})
               ELSE rankResp' =
                        Response("ok", "heuristic",
                                 Slice0(SortDesc(HeuristicRanked(Slice0(stargazers, GetMax))),
                                        GetTop), {})
    /\ UNCHANGED ghInteresting
    /\ UNCHANGED <<scoreVars, questionVars, kmeansVars, tokenVars, lookupVars, topicVars, fetchVars, statsVars, insightVars, seedVars>>

\* GET of the handler with the D1 cache: the static snapshot first, the
\* cached rows unless force=live, the model, the static snapshot again
\* unless force=live, then heuristicScore; the last two rankings are stored.
GetInterestingCached ==
    /\ rankReq = NoRequest
    /\ \E s \in CachedStargazers, r \in OneBatchReplies, key \in Keys, force \in Forces,
          static \in SnapshotFetches, db \in Databases :
        LET static1 == static[1]
            static2 == static[2]
            l == LlmStage(s, key, force, r)
            cached == IF force # "live" THEN Cached(ghInteresting, db) ELSE <<>>
            byHeuristic == Slice0(SortDesc(HeuristicRanked(Slice0(s, GetMax))), GetTop)
        IN  /\ rankReq' = Request("getCached", TRUE, s, key, force, r, static1, static2, db)
            /\ IF Len(static1) > 0
               THEN /\ rankResp' = Response("ok", "static", static1, {})
                    /\ UNCHANGED ghInteresting
               ELSE IF Len(s) = 0
               THEN /\ rankResp' = Response("ok", "none", <<>>, {})
                    /\ UNCHANGED ghInteresting
               ELSE IF Len(cached) > 0
               THEN /\ rankResp' = Response("ok", "d1", cached, {})
                    /\ UNCHANGED ghInteresting
               ELSE IF l.done
               THEN \E sorted \in SortOutcomes(l.ranked) :
                        /\ rankResp' = Response("ok", "llm", Slice0(sorted, GetTop), l.llm)
                        /\ ghInteresting' =
                               UpsertAll(ghInteresting, Slice0(sorted, GetTop), 1, db)
               ELSE IF force # "live" /\ Len(static2) > 0
               THEN /\ rankResp' = Response("ok", "static", static2, {})
                    /\ UNCHANGED ghInteresting
               ELSE /\ rankResp' = Response("ok", "heuristic", byHeuristic, {})
                    /\ ghInteresting' = UpsertAll(ghInteresting, byHeuristic, 1, db)
    /\ UNCHANGED <<scoreVars, questionVars, kmeansVars, tokenVars, lookupVars, topicVars, fetchVars, statsVars, insightVars, seedVars>>

\* The operation has ended; the next one starts from the stored rows alone.
RankingEnds ==
    /\ rankReq # NoRequest
    /\ rankReq' = NoRequest
    /\ rankResp' = NoResponse
    /\ UNCHANGED ghInteresting
    /\ UNCHANGED <<scoreVars, questionVars, kmeansVars, tokenVars, lookupVars, topicVars, fetchVars, statsVars, insightVars, seedVars>>

\* The batches the operation asks the model about.
Batches(req) ==
    LET max == IF req.op = "script" THEN ScriptMax ELSE GetMax
    IN  (Min(max, Len(req.stargazers)) + BatchSize - 1) \div BatchSize

\* The API key is absent, or a model call throws or answers no JSON on a batch.
ModelUnavailable(req) ==
    \/ ~ Truthy(req.apiKey)
    \/ \E b \in 1..Batches(req) : req.replies[b].kind \in {"throw", "invalid"}

\* An operation on a non-empty stargazer list has ended without the model.
EndedWithoutModel ==
    /\ rankReq.op \in {"script", "get", "getCached"}
    /\ rankReq.readable
    /\ Len(rankReq.stargazers) > 0
    /\ ModelUnavailable(rankReq)

\* Every item carries the score and reason heuristicScore gives its stargazer,
\* and the items are in non-increasing order of score.
ScoresFromHeuristic(items, stargazers) ==
    /\ \A i \in 1..Len(items) :
        \E j \in 1..Len(stargazers) :
            /\ stargazers[j].login = items[i].login
            /\ items[i].score = JsNum(heuristicScore(stargazers[j]).score)
            /\ items[i].reason = heuristicScore(stargazers[j]).reason
    /\ \A i \in 1..(Len(items) - 1) : items[i].score.n >= items[i + 1].score.n

C4_ModelScoresClamped ==
    rankResp.source = "llm" =>
        \A i \in 1..Len(rankResp.items) :
            rankResp.items[i].login \in rankResp.llm =>
                /\ rankResp.items[i].score.t = "num"
                /\ rankResp.items[i].score.n >= 0
                /\ rankResp.items[i].score.n <= 100

-----------------------------------------------------------------------------
(* tokenize and the unanswered-question detector of generate_semantic_insights *)

WhitespaceSet == CharsOf(" \t\n\r")
TokenCharSet == CharsOf("abcdefghijklmnopqrstuvwxyz0123456789@#")

\* The characters \S+ takes from the start of s.
RECURSIVE NonSpacePrefixLen(_)
NonSpacePrefixLen(s) ==
    IF Len(s) = 0 \/ CharAt(s, 1) \in WhitespaceSet THEN 0
    ELSE 1 + NonSpacePrefixLen(SubSeq(s, 2, Len(s)))

\* The length of the match of /https?:\/\/\S+/ at the start of s, 0 for none.
UrlMatchLen(s) ==
    LET scheme == IF StartsWith(s, "http://") THEN 7
                  ELSE IF StartsWith(s, "https://") THEN 8 ELSE 0
        tail == NonSpacePrefixLen(SubSeq(s, scheme + 1, Len(s)))
    IN  IF scheme > 0 /\ tail > 0 THEN scheme + tail ELSE 0

\* .replace(/https?:\/\/\S+/g, ' ')
RECURSIVE ReplaceUrls(_)
ReplaceUrls(s) ==
    IF Len(s) = 0 THEN ""
    ELSE LET n == UrlMatchLen(s)
         IN  IF n > 0 THEN " " \o ReplaceUrls(SubSeq(s, n + 1, Len(s)))
             ELSE CharAt(s, 1) \o ReplaceUrls(SubSeq(s, 2, Len(s)))

\* .split(/[^a-z0-9@#]+/g).filter(Boolean): cur is the fragment being read.
RECURSIVE SplitTokens(_, _)
SplitTokens(s, cur) ==
    IF Len(s) = 0 THEN (IF cur = "" THEN <<>> ELSE <<cur>>)
    ELSE IF CharAt(s, 1) \in TokenCharSet
         THEN SplitTokens(SubSeq(s, 2, Len(s)), cur \o CharAt(s, 1))
         ELSE (IF cur = "" THEN <<>> ELSE <<cur>>)
              \o SplitTokens(SubSeq(s, 2, Len(s)), "")

\* tokenize without the replacement of links.
tokenizeKeepLinks(text) == SplitTokens(ToLowerCase(text), "")

tokenize(text) == SplitTokens(ReplaceUrls(ToLowerCase(text)), "")

STOP ==
    {"a", "an", "and", "the", "this", "that", "to", "of", "in", "on", "for",
     "is", "are", "be", "we", "you", "i", "it", "at", "as", "by", "with", "or",
     "from", "your", "our", "their", "there", "here", "has", "have", "had",
     "do", "does", "done", "did", "can", "could", "should", "would", "will",
     "just", "also", "like", "into", "over", "under", "out", "up", "down",
     "again", "any", "some", "more", "most", "such", "so", "than", "then",
     "too", "very", "via", "www", "http", "https", "com", "discord", "github",
     "cua", "provider", "llm", "thought", "currently", "confirming", "love"}

ActionWords ==
    {"try", "use", "run", "update", "fix", "works", "resolved", "solution",
     "guide", "docs"}

\* A filter that lets every word through.
AnyWord(w) == TRUE

\* !STOP.has(w)
NotStop(w) == w \notin STOP


\* The number of entries of seq that t includes.
CountIncluded(seq, t) == Cardinality({x \in 1..Len(seq) : Includes(t, seq[x])})

OverlapTokens == 8
OverlapNeeded == 2
WindowLimit == 11

\* tokenize(text).filter((w)=>!STOP.has(w)).slice(0,8).filter((w)=> t.includes(w)).length
QuestionOverlap(text, t) ==
    CountIncluded(Slice0(SelectSeq(tokenize(text), NotStop), OverlapTokens), t)

\* The mutant: the author test dropped.
ReplyAnswersAnyAuthor(m, n) ==
    LET t == ToLowerCase(n.text)
        hasLink == Includes(t, "http://") \/ Includes(t, "https://")
        hasAction == \E w \in ActionWords : Includes(t, w)
    IN  hasLink \/ hasAction \/ QuestionOverlap(m.text, t) >= OverlapNeeded

\* The mutant: one shared token is enough.
ReplyAnswersOneToken(m, n) ==
    /\ n.author_id # ""
    /\ n.author_id # m.author_id
    /\ LET t == ToLowerCase(n.text)
           hasLink == Includes(t, "http://") \/ Includes(t, "https://")
           hasAction == \E w \in ActionWords : Includes(t, w)
       IN  hasLink \/ hasAction \/ QuestionOverlap(m.text, t) >= 1

\* The body of the inner loop: whether message n marks question m answered.
\* author_id "" stands for an absent or empty author_id (both falsy).
ReplyAnswers(m, n) ==
    /\ n.author_id # ""
    /\ n.author_id # m.author_id
    /\ LET t == ToLowerCase(n.text)
           hasLink == Includes(t, "http://") \/ Includes(t, "https://")
           hasAction == \E w \in ActionWords : Includes(t, w)
       IN  hasLink \/ hasAction \/ QuestionOverlap(m.text, t) >= OverlapNeeded

\* The mutant: the window one message longer.
WindowEndOneMore(msgs, i) == Min(Len(msgs) + 1, i + 11 + 1)

\* Math.min(messages.length, i+11), for 1-based positions: the first position
\* the inner loop does not read.
WindowEnd(msgs, i) == Min(Len(msgs) + 1, i + WindowLimit)

\* for (let j=i+1; j<Math.min(messages.length, i+11); j++) { ... break; }
\* The position j at which answered is set, 0 when the loop ends without.
RECURSIVE AnswerPos(_, _, _)
AnswerPos(msgs, i, j) ==
    IF j >= WindowEnd(msgs, i) THEN 0
    ELSE IF ReplyAnswers(msgs[i], msgs[j]) THEN j
    ELSE AnswerPos(msgs, i, j + 1)

\* for (let i=0;i<messages.length;i++){ ... if (!answered) questions.push(text); }
RECURSIVE DetectFrom(_, _)
DetectFrom(msgs, i) ==
    IF i > Len(msgs) THEN [questions |-> <<>>, by |-> <<>>]
    ELSE LET isQuestion == Includes(msgs[i].text, "?")
             pos == IF isQuestion THEN AnswerPos(msgs, i, i + 1) ELSE 0
             rest == DetectFrom(msgs, i + 1)
         IN  [questions |-> (IF isQuestion /\ pos = 0 THEN <<msgs[i].text>> ELSE <<>>)
                            \o rest.questions,
              by |-> <<pos>> \o rest.by]

Msg(author, text) == [author_id |-> author, text |-> text]

\* The messages the detector is run on.
SampleMessages ==
    {Msg("A", "How do I configure OAuth redirect?"),
     Msg("A", "anyone?"),
     Msg("B", "lol same"),
     Msg("B", "which oauth app"),
     Msg("B", "try setting the redirect_uri in your OAuth app settings"),
     Msg("B", "Configure the OAuth client"),
     Msg("A", "how set api key?"),
     Msg("B", "api key is in env"),
     Msg("B", "see https://x.io/a"),
     Msg("", "try https://x.io/a"),
     Msg("A", "try https://x.io/a"),
     Msg("A", "login login?"),
     Msg("B", "login page"),
     Msg("A", "a1 b2 c3 d4 e5 f6 g7 h8 i9 j0?"),
     Msg("B", "i9 j0"),
     Msg("B", "does it work on linux?")}

\* A message that answers no question of SampleMessages.
FillerMessage == Msg("C", "ok")

\* The sample messages placed among filler messages to try the window.
WindowMessages ==
    {Msg("A", "How do I configure OAuth redirect?"),
     Msg("B", "try setting the redirect_uri in your OAuth app settings"),
     Msg("A", "try https://x.io/a"),
     Msg("B", "does it work on linux?")}

MaxShort == 2
MaxMsgs == 12

\* Every list of up to MaxShort sample messages.
ShortLists == UNION {[1..n -> SampleMessages] : n \in 0..MaxShort}

\* Lists of up to MaxMsgs messages: filler messages, and window messages at up
\* to two positions.
WindowLists ==
    UNION {{[x \in 1..n |-> IF x = p THEN a ELSE IF x = q THEN b ELSE FillerMessage] :
                p \in 1..n, q \in 1..n, a \in WindowMessages, b \in WindowMessages} :
           n \in 1..MaxMsgs}

MessageLists == ShortLists \cup WindowLists

\* The detector's loop over the whole message list.
DetectUnanswered ==
    /\ qpc = "input"
    /\ LET r == DetectFrom(messages, 1)
       IN  questions' = r.questions /\ answeredBy' = r.by
    /\ qpc' = "done"
    /\ UNCHANGED <<messages, scoreVars, rankVars, kmeansVars, tokenVars, lookupVars, topicVars, fetchVars, statsVars, insightVars, seedVars>>

\* The positions of the messages whose text contains '?'.
QuestionPositions == {i \in 1..Len(messages) : Includes(messages[i].text, "?")}

\* The positions of the next 10 messages after position i.
NextTen(i) == {j \in 1..Len(messages) : i < j /\ j <= i + 10}

\* The texts of the messages at the positions of S, in list order.
RECURSIVE TextsAt(_, _)
TextsAt(S, i) ==
    IF i > Len(messages) THEN <<>>
    ELSE (IF i \in S THEN <<messages[i].text>> ELSE <<>>) \o TextsAt(S, i + 1)

HasUrl(text) ==
    Includes(ToLowerCase(text), "http://") \/ Includes(ToLowerCase(text), "https://")

HasResolutionWord(text) ==
    \E w \in {"try", "use", "run", "update", "fix", "works", "resolved",
              "solution", "guide", "docs"} : Includes(ToLowerCase(text), w)

LongEnough(w) == Len(w) >= 4

\* How many of the question's first 8 tokens that are not stop-words occur in
\* the lower-cased reply, a repeated token counted each time.
SharedTokens(question, reply) ==
    LET toks == SelectSeq(tokenize(question), NotStop)
        first == SubSeq(toks, 1, Min(8, Len(toks)))
    IN  Cardinality({x \in 1..Len(first) : Includes(ToLowerCase(reply), first[x])})

\* The same, counting only tokens of length >= 4 as significant.
SharedLongTokens(question, reply) ==
    LET toks == SelectSeq(SelectSeq(tokenize(question), NotStop), LongEnough)
        first == SubSeq(toks, 1, Min(8, Len(toks)))
    IN  Cardinality({x \in 1..Len(first) : Includes(ToLowerCase(reply), first[x])})

\* C5 as stated: a question is reported unanswered exactly when none of the next
\* 10 messages is from a different author_id and has a URL, a resolution word or
\* at least 2 significant tokens (length >= 4, not stop-words) of the question.
C5_Original ==
    qpc = "done" =>
        \A i \in QuestionPositions :
            answeredBy[i] = 0 <=>
                ~ \E j \in NextTen(i) :
                    /\ messages[j].author_id # ""
                    /\ messages[j].author_id # messages[i].author_id
                    /\ \/ HasUrl(messages[j].text)
                       \/ HasResolutionWord(messages[j].text)
                       \/ SharedLongTokens(messages[i].text, messages[j].text) >= 2

\* C5 (amended): a question is reported unanswered exactly when none of the next
\* 10 messages has a non-empty author_id different from the question's and a
\* URL, a resolution word, or at least 2 of the question's first 8 tokens that
\* are not stop-words (of any length, repeats counted); the message that marks a
\* question answered is never by the question's author.
C5_UnansweredIffNoReply ==
    qpc = "done" =>
        /\ \A i \in QuestionPositions :
            /\ answeredBy[i] = 0 <=>
                ~ \E j \in NextTen(i) :
                    /\ messages[j].author_id # ""
                    /\ messages[j].author_id # messages[i].author_id
                    /\ \/ HasUrl(messages[j].text)
                       \/ HasResolutionWord(messages[j].text)
                       \/ SharedTokens(messages[i].text, messages[j].text) >= 2
            /\ answeredBy[i] # 0 =>
                messages[answeredBy[i]].author_id # messages[i].author_id
        /\ questions = TextsAt({i \in QuestionPositions : answeredBy[i] = 0}, 1)

\* A question reported unanswered although its own author posted a link and a
\* resolution word in the next message.
C5_Witness ==
    /\ qpc = "done"
    /\ \E i \in QuestionPositions :
          /\ answeredBy[i] = 0
          /\ questions = <<messages[i].text>>
          /\ \E j \in NextTen(i) :
                /\ messages[j].author_id = messages[i].author_id
                /\ HasUrl(messages[j].text)
                /\ HasResolutionWord(messages[j].text)

\* C6 as stated: a reply without URL and resolution word marks a question
\* answered only when it holds at least 2 of the question's first 8 significant
\* tokens, a significant token having length >= 4 and being no stop-word.
C6_Original ==
    qpc = "done" =>
        \A i \in QuestionPositions :
            (/\ answeredBy[i] # 0
             /\ ~ HasUrl(messages[answeredBy[i]].text)
             /\ ~ HasResolutionWord(messages[answeredBy[i]].text))
            => SharedLongTokens(messages[i].text, messages[answeredBy[i]].text) >= 2

\* C6 (amended): a reply without URL and resolution word marks a question
\* answered only when its lower-cased text holds at least 2 of the question's
\* first 8 tokens that are not stop-words; tokens of any length count.
C6_OverlapNeedsTwoTokens ==
    qpc = "done" =>
        \A i \in QuestionPositions :
            (/\ answeredBy[i] # 0
             /\ ~ HasUrl(messages[answeredBy[i]].text)
             /\ ~ HasResolutionWord(messages[answeredBy[i]].text))
            => SharedTokens(messages[i].text, messages[answeredBy[i]].text) >= 2

\* A question marked answered by a reply that has neither URL nor resolution
\* word, only shared tokens.
C6_Witness ==
    /\ qpc = "done"
    /\ \E i \in QuestionPositions :
          /\ answeredBy[i] # 0
          /\ ~ HasUrl(messages[answeredBy[i]].text)
          /\ ~ HasResolutionWord(messages[answeredBy[i]].text)
          /\ SharedLongTokens(messages[i].text, messages[answeredBy[i]].text) >= 2

\* C7: only the messages at positions i+1 .. i+10 can mark the question at
\* position i answered: the message that marks it lies there, a question with no
\* answering message there is reported whatever lies at i+11 and later or before
\* it, and a question near the end is checked against the messages that remain.
C7_OnlyNextTenCount ==
    qpc = "done" =>
        /\ Len(answeredBy) = Len(messages)
        /\ \A i \in QuestionPositions :
            /\ answeredBy[i] # 0 => answeredBy[i] \in NextTen(i)
            /\ (\A j \in NextTen(i) : ~ ReplyAnswers(messages[i], messages[j]))
               => answeredBy[i] = 0
        /\ questions = TextsAt({i \in QuestionPositions : answeredBy[i] = 0}, 1)

\* A question reported unanswered whose only answering reply is at i+11.
C7_Witness ==
    /\ qpc = "done"
    /\ \E i \in QuestionPositions :
          /\ answeredBy[i] = 0
          /\ questions = <<messages[i].text>>
          /\ i + 11 <= Len(messages)
          /\ ReplyAnswers(messages[i], messages[i + 11])

-----------------------------------------------------------------------------
(* cosine and kmeans of generate_semantic_insights *)

\* A vector (a Map from token to weight) is the tuple of its weights over the
\* vocabulary, 0 for a token the Map does not hold.  Weights are naturals, and
\* similarities are compared exactly: the quotient dot/denom is kept as the pair
\* num/sqrt(den), so no rounding of the floating-point quotient is modelled.
Vocabulary == 1..3

Dot(a, b) == a[1] * b[1] + a[2] * b[2] + a[3] * b[3]

\* const denom = Math.sqrt(na)*Math.sqrt(nb)||1; return dot/denom;
cosine(a, b) ==
    IF Dot(a, a) * Dot(b, b) = 0
    THEN [num |-> Dot(a, b), den |-> 1]
    ELSE [num |-> Dot(a, b), den |-> Dot(a, a) * Dot(b, b)]

\* let bestSim=-1
MinusOne == [num |-> -1, den |-> 1]

\* sim >= bestSim, for sim >= 0: the last of several equal centers wins.
SimAtLeast(sim, bestSim) ==
    IF bestSim.num < 0 THEN TRUE
    ELSE sim.num * sim.num * bestSim.den >= bestSim.num * bestSim.num * sim.den

\* sim > bestSim, for sim >= 0
SimGreater(sim, bestSim) ==
    IF bestSim.num < 0 THEN TRUE
    ELSE sim.num * sim.num * bestSim.den > bestSim.num * bestSim.num * sim.den

\* The mutant: best holds the 1-based position of the center.
RECURSIVE BestCenterOneBased(_, _, _, _, _)
BestCenterOneBased(v, cs, c, best, bestSim) ==
    IF c > Len(cs) THEN best
    ELSE LET sim == cosine(v, cs[c])
         IN  IF SimGreater(sim, bestSim)
             THEN BestCenterOneBased(v, cs, c + 1, c, sim)
             ELSE BestCenterOneBased(v, cs, c + 1, best, bestSim)

\* for (let c=0;c<centers.length;c++) { const sim=cosine(vectors[i], centers[c]);
\*   if (sim>bestSim) { bestSim=sim; best=c; } }
\* c is the 1-based position of the center read next, best a 0-based group index.
RECURSIVE BestCenter(_, _, _, _, _)
BestCenter(v, cs, c, best, bestSim) ==
    IF c > Len(cs) THEN best
    ELSE LET sim == cosine(v, cs[c])
         IN  IF SimGreater(sim, bestSim)
             THEN BestCenter(v, cs, c + 1, c - 1, sim)
             ELSE BestCenter(v, cs, c + 1, best, bestSim)

ZeroVector == [x \in Vocabulary |-> 0]

\* sums[c]: the sum of the vectors whose assign is c, from position i on.
RECURSIVE SumOfGroup(_, _, _, _)
SumOfGroup(vs, as, c, i) ==
    IF i > Len(vs) THEN ZeroVector
    ELSE LET rest == SumOfGroup(vs, as, c, i + 1)
         IN  IF as[i] = c THEN [x \in Vocabulary |-> vs[i][x] + rest[x]] ELSE rest

Iters == 20

\* The input vectors: single tokens, mixtures, and a multiple of a mixture.
VectorPool ==
    {<<1, 0, 0>>, <<0, 1, 0>>, <<0, 0, 1>>, <<1, 1, 0>>, <<2, 2, 0>>, <<2, 1, 0>>}

MaxDocs == 3
MaxK == 3

VectorLists == UNION {[1..n -> VectorPool] : n \in 0..MaxDocs}

\* The inputs of the runs that are followed to their end.
MaxRunDocs == 2
MaxRunK == 2

RunVectorLists == UNION {[1..n -> VectorPool] : n \in 0..MaxRunDocs}

\* if (vectors.length===0) return [];
KmeansEmpty ==
    /\ kpc = "start"
    /\ Len(vectors) = 0
    /\ kpc' = "returned"
    /\ UNCHANGED <<vectors, kArg, centers, assign, it, scoreVars, rankVars, questionVars, tokenVars, lookupVars, topicVars, fetchVars, statsVars, insightVars, seedVars>>

\* const centers = vectors.slice(0, k)...; let assign = new Array(...).fill(0);
KmeansStart ==
    /\ kpc = "start"
    /\ Len(vectors) > 0
    /\ centers' = Slice0(vectors, kArg)
    /\ assign' = [i \in 1..Len(vectors) |-> 0]
    /\ it' = 0
    /\ kpc' = "loop"
    /\ UNCHANGED <<vectors, kArg, scoreVars, rankVars, questionVars, tokenVars, lookupVars, topicVars, fetchVars, statsVars, insightVars, seedVars>>

\* One pass of the for loop: assign, then update.
KmeansRound ==
    /\ kpc = "loop"
    /\ it < Iters
    /\ LET as == [i \in 1..Len(vectors) |-> BestCenter(vectors[i], centers, 1, 0, MinusOne)]
       IN  /\ assign' = as
           /\ centers' = [c \in 1..Len(centers) |-> SumOfGroup(vectors, as, c - 1, 1)]
    /\ it' = it + 1
    /\ UNCHANGED <<vectors, kArg, kpc, scoreVars, rankVars, questionVars, tokenVars, lookupVars, topicVars, fetchVars, statsVars, insightVars, seedVars>>

\* A round would leave assign as it is.
Converged ==
    \A i \in 1..Len(vectors) : BestCenter(vectors[i], centers, 1, 0, MinusOne) = assign[i]

\* A loop that also ends when a round has changed nothing.
KmeansReturnOnConvergence ==
    /\ kpc = "loop"
    /\ (it = Iters \/ (it > 0 /\ Converged))
    /\ kpc' = "returned"
    /\ UNCHANGED <<vectors, kArg, centers, assign, it, scoreVars, rankVars, questionVars, tokenVars, lookupVars, topicVars, fetchVars, statsVars, insightVars, seedVars>>

\* return assign;
KmeansReturn ==
    /\ kpc = "loop"
    /\ it = Iters
    /\ kpc' = "returned"
    /\ UNCHANGED <<vectors, kArg, centers, assign, it, scoreVars, rankVars, questionVars, tokenVars, lookupVars, topicVars, fetchVars, statsVars, insightVars, seedVars>>

\* The number of groups kmeans works with: centers.length.
GroupCount == Min(kArg, Len(vectors))

GroupSize(g) == Cardinality({i \in 1..Len(assign) : assign[i] = g})

\* C8: for N >= 1 vectors and k >= 1, after the start, after each round and at
\* the return, assign holds one index per input vector and every index lies
\* in [0, min(k, N)).
C8_OneIndexPerVector ==
    (kpc \in {"loop", "returned"} /\ Len(vectors) >= 1) =>
        /\ Len(assign) = Len(vectors)
        /\ \A i \in 1..Len(assign) : assign[i] \in 0..(GroupCount - 1)

\* kmeans has returned with k above the document count and the last group used.
C8_Witness ==
    /\ kpc = "returned"
    /\ it = Iters
    /\ Len(vectors) >= 2
    /\ kArg > Len(vectors)
    /\ \E i \in 1..Len(assign) : assign[i] = Len(vectors) - 1

\* C9: when kmeans returns, every group index in [0, min(k, N)) has at least
\* one vector assigned to it.
C9_NoEmptyGroup ==
    (kpc = "returned" /\ Len(vectors) >= 1) =>
        \A g \in 0..(GroupCount - 1) : GroupSize(g) > 0

\* The similarity a is below the similarity b, both being at least 0.
SimBelow(a, b) == a.num * a.num * b.den < b.num * b.num * a.den

\* g is the lowest group index among the centers of highest similarity to v.
LowestNearest(v, cs, g) ==
    /\ g + 1 \in 1..Len(cs)
    /\ \A c \in 1..Len(cs) : ~SimBelow(cosine(v, cs[g + 1]), cosine(v, cs[c]))
    /\ \A c \in 1..g : SimBelow(cosine(v, cs[c]), cosine(v, cs[g + 1]))

\* C13: the start makes the first k input vectors the centers, in input
\* order, and every round gives each vector the lowest group index among the
\* centers of highest cosine similarity to it, with all similarities 0 included.
C13_NearestCenterLowestIndex ==
    [][/\ (kpc = "start" /\ kpc' = "loop") =>
            /\ Len(centers') = Min(kArg, Len(vectors))
            /\ \A c \in 1..Len(centers') : centers'[c] = vectors[c]
       /\ (kpc = "loop" /\ it' = it + 1) =>
            \A i \in 1..Len(vectors) : LowestNearest(vectors[i], centers, assign'[i])]_vars

\* After the first round of two centers, one vector that is as similar to the
\* second center as to the first, and one that has similarity 0 to both, are
\* in group 0.
C13_Witness ==
    /\ kpc = "loop"
    /\ it = 1
    /\ kArg = 2
    /\ vectors = <<(<<1, 0, 0>>), (<<0, 1, 0>>), (<<1, 1, 0>>)>>
           \/ vectors = <<(<<1, 0, 0>>), (<<0, 1, 0>>), (<<0, 0, 1>>)>>
    /\ assign = <<0, 1, 0>>

\* C14: kmeans ends for every input; with a vector list that is not empty it
\* returns after exactly Iters rounds, converged or not, and with an empty
\* list it returns at once, without a round and with an empty result.
C14_ReturnsAfterItersRounds ==
    /\ <>(kpc = "returned")
    /\ [](kpc = "returned" =>
            IF Len(vectors) = 0 THEN it = 0 /\ assign = <<>>
            ELSE it = Iters /\ Len(assign) = Len(vectors))
    /\ [][kpc = "loop" /\ kpc' = "loop" => it' = it + 1]_vars

\* kmeans has returned after Iters rounds although a further round would
\* have changed nothing, with vectors in more than one group.
C14_Witness ==
    /\ kpc = "returned"
    /\ it = Iters
    /\ Converged
    /\ \E i \in 1..Len(assign) : assign[i] # 0

-----------------------------------------------------------------------------
(* tokenize called on one argument, and the document main builds from it *)

\* (text || '') followed by the rest of tokenize
tokenizeValue(v) == tokenize(IF Truthy(v) THEN v.s ELSE "")

MinTokenLength == 3

\* tokenize(String(m.text||'')).filter((t)=> t.length>=3 && !STOP.has(t))
DocTokens(v) ==
    SelectSeq(tokenizeValue(v), LAMBDA t : Len(t) >= MinTokenLength /\ NotStop(t))

\* The pieces the argument strings are made of: words in both cases, two
\* stop-words, separators, a mention and a tag, a link, and a scheme alone.
Pieces ==
    {"The ", "Is", "cat,", "@Bob", " #1", " ", "https://zz9.io/q", "http://"}

MaxPieces == 3

PieceLists == UNION {[1..n -> Pieces] : n \in 0..MaxPieces}

Texts == {Join(ps, "") : ps \in PieceLists}

TokenizeArguments == {JsNull} \cup {JsStr(t) : t \in Texts}

CallTokenize ==
    /\ tkpc = "input"
    /\ tkTokens' = tokenizeValue(tkInput)
    /\ tkpc' = "tokenized"
    /\ UNCHANGED <<tkInput, tkDoc, tkAgain>>
    /\ UNCHANGED <<scoreVars, rankVars, questionVars, kmeansVars, lookupVars, topicVars, fetchVars, statsVars, insightVars, seedVars>>

\* One element of docs before the length filter of the list.
MapDocument ==
    /\ tkpc = "input"
    /\ tkDoc' = DocTokens(tkInput)
    /\ tkpc' = "document"
    /\ UNCHANGED <<tkInput, tkTokens, tkAgain>>
    /\ UNCHANGED <<scoreVars, rankVars, questionVars, kmeansVars, lookupVars, topicVars, fetchVars, statsVars, insightVars, seedVars>>

\* tokenize(tokenize(x).join(' '))
TokenizeAgain ==
    /\ tkpc = "tokenized"
    /\ tkAgain' = tokenize(Join(tkTokens, " "))
    /\ tkpc' = "rejoined"
    /\ UNCHANGED <<tkInput, tkTokens, tkDoc>>
    /\ UNCHANGED <<scoreVars, rankVars, questionVars, kmeansVars, lookupVars, topicVars, fetchVars, statsVars, insightVars, seedVars>>

\* The words that occur in the arguments only inside a link.
LinkWords == {"zz9", "io", "q"}

HasLink(v) == v.t = "str" /\ Includes(v.s, "https://zz9.io/q")

WellFormedToken(t) ==
    /\ Len(t) > 0
    /\ \A i \in 1..Len(t) : CharAt(t, i) \in TokenCharSet

TokensOf(seq) == {seq[i] : i \in 1..Len(seq)}

-----------------------------------------------------------------------------
(* GET /api/examples: the example lookup *)

LimitFloor == 1
LimitCeiling == 50
DefaultLimit == 10

\* Math.min(50, Math.max(1, Number(searchParams.get("limit") || 10)))
LookupLimit(param) ==
    LET n == ToNumber(IF Truthy(param) THEN param ELSE JsNum(DefaultLimit))
    IN  IF n.t = "nan" THEN JsNaN
        ELSE JsNum(Min(LimitCeiling, Max(LimitFloor, n.n)))

\* No cut at limit.
SliceNoLimit(seq, limit) == seq

\* .slice(0, limit): nothing when limit is NaN.
SliceLimit(seq, limit) == Slice0(seq, IF limit.t = "nan" THEN 0 ELSE limit.n)

\* .slice(-n): the last n elements, everything for n = 0.
SliceLast(seq, n) ==
    IF n = 0 \/ n >= Len(seq) THEN seq ELSE SubSeq(seq, Len(seq) - n + 1, Len(seq))

\* String.prototype.trim
RECURSIVE TrimStart(_)
TrimStart(s) ==
    IF Len(s) > 0 /\ CharAt(s, 1) \in WhitespaceSet
    THEN TrimStart(SubSeq(s, 2, Len(s))) ELSE s

RECURSIVE TrimEnd(_)
TrimEnd(s) ==
    IF Len(s) > 0 /\ CharAt(s, Len(s)) \in WhitespaceSet
    THEN TrimEnd(SubSeq(s, 1, Len(s) - 1)) ELSE s

Trim(s) == TrimEnd(TrimStart(s))

\* s.split(sep) for a one-character separator: cur is the part being read.
RECURSIVE SplitOn(_, _, _)
SplitOn(s, sep, cur) ==
    IF Len(s) = 0 THEN <<cur>>
    ELSE IF CharAt(s, 1) = sep
         THEN <<cur>> \o SplitOn(SubSeq(s, 2, Len(s)), sep, "")
         ELSE SplitOn(SubSeq(s, 2, Len(s)), sep, cur \o CharAt(s, 1))

\* idsParam.split(",").map((s) => s.trim()).filter(Boolean)
RequestedIds(idsParam) ==
    LET parts == SplitOn(idsParam, ",", "")
        trimmed == [i \in 1..Len(parts) |-> Trim(parts[i])]
    IN  SelectSeq(trimmed, LAMBDA s : s # "")

WordCharSet == CharsOf("abcdefghijklmnopqrstuvwxyz0123456789")

\* s.split(/[^a-z0-9]+/g).filter(Boolean)
RECURSIVE SplitWords(_, _)
SplitWords(s, cur) ==
    IF Len(s) = 0 THEN (IF cur = "" THEN <<>> ELSE <<cur>>)
    ELSE IF CharAt(s, 1) \in WordCharSet
         THEN SplitWords(SubSeq(s, 2, Len(s)), cur \o CharAt(s, 1))
         ELSE (IF cur = "" THEN <<>> ELSE <<cur>>)
              \o SplitWords(SubSeq(s, 2, Len(s)), "")

\* Array.from(new Set(seq)): the first occurrence of each element, in order.
RECURSIVE Unique(_)
Unique(seq) ==
    IF Len(seq) = 0 THEN <<>>
    ELSE LET front == Unique(SubSeq(seq, 1, Len(seq) - 1))
             last == seq[Len(seq)]
         IN  IF \E i \in 1..Len(front) : front[i] = last THEN front
             ELSE Append(front, last)

\* A message of the file, a row of discord_messages, or a payload of an
\* index file: message_id "" stands for an absent id, ts 0 for a timestamp
\* that is absent or cannot be parsed, and the author fields are left out.
Message(id, ts, text) == [message_id |-> id, ts |-> ts, text |-> text]

\* all.filter on the date bounds (lines 151-161); a bound of 0 is absent.
InBounds(all, fromMs, toMs) ==
    IF fromMs = 0 /\ toMs = 0 THEN all
    ELSE SelectSeq(all, LAMBDA m :
            /\ m.ts # 0
            /\ ~(fromMs # 0 /\ m.ts < fromMs)
            /\ ~(toMs # 0 /\ m.ts > toMs))

NoDatabase == [present |-> FALSE, topics |-> <<>>, messages |-> <<>>, fts |-> FALSE]

\* D1 with rows of discord_topics and of discord_messages for the uid of
\* the request, and with or without the full-text table.
Database(topics, msgs, fts) ==
    [present |-> TRUE, topics |-> topics, messages |-> msgs, fts |-> fts]

TopicRow(topic, id, score) == [topic |-> topic, message_id |-> id, score |-> score]

\* ORDER BY score DESC for rows of distinct scores.
RECURSIVE ByScoreDesc(_)
ByScoreDesc(rows) ==
    IF Len(rows) = 0 THEN <<>>
    ELSE LET top == CHOOSE i \in 1..Len(rows) :
                        \A j \in 1..Len(rows) : rows[j].score <= rows[i].score
         IN  <<rows[top]>> \o
             ByScoreDesc(SubSeq(rows, 1, top - 1) \o SubSeq(rows, top + 1, Len(rows)))

\* LIMIT ? bound to limit; binding NaN makes the statement fail, and d1All
\* answers [] for a statement that fails.
SqlLimit(rows, limit) == IF limit.t = "nan" THEN <<>> ELSE Slice0(rows, limit.n)

\* SELECT message_id FROM discord_topics WHERE uid=? AND topic=?
\*   ORDER BY score DESC LIMIT ?
D1TopicIds(db, topic, limit) ==
    IF ~db.present THEN <<>>
    ELSE LET rows == ByScoreDesc(SelectSeq(db.topics, LAMBDA r : r.topic = topic))
             kept == SqlLimit(rows, limit)
         IN  [i \in 1..Len(kept) |-> kept[i].message_id]

\* SELECT ... FROM discord_messages WHERE uid=? AND message_id IN (...)
D1MessagesIn(db, ids) ==
    IF ~db.present THEN <<>>
    ELSE SelectSeq(db.messages, LAMBDA m : \E i \in 1..Len(ids) : ids[i] = m.message_id)

\* discord_messages_fts MATCH ? LIMIT ?: every word of the query is a word of
\* the content, cases apart; [] when the full-text table is missing.
D1Match(db, q, limit) ==
    IF ~db.present \/ ~db.fts THEN <<>>
    ELSE LET words == TokensOf(SplitWords(q, ""))
         IN  SqlLimit(SelectSeq(db.messages, LAMBDA m :
                        /\ words # {}
                        /\ words \subseteq TokensOf(SplitWords(ToLowerCase(m.text), ""))),
                      limit)

\* lower(content) LIKE '%q%' LIMIT ?
D1Like(db, q, limit) ==
    IF ~db.present THEN <<>>
    ELSE SqlLimit(SelectSeq(db.messages, LAMBDA m : Includes(ToLowerCase(m.text), q)), limit)

\* An index file: served by the site ("site"), only by the GitHub copy
\* ("github"), or by neither ("none").
NoFile == [served |-> "none", entries |-> <<>>]
IndexFile(served, entries) == [served |-> served, entries |-> entries]

\* An entry of examples_index: a topic and its example payloads.
ExamplesEntry(topic, examples) == [topic |-> topic, examples |-> examples]

\* An entry of topic_index: { topic, example_ids }
TopicEntry(topic, ids) == [topic |-> topic, example_ids |-> ids]

\* The first element of seq, as a sequence of 0 or 1 elements.
First(seq) == IF Len(seq) = 0 THEN <<>> ELSE <<seq[1]>>

\* all.filter((m) => m.message_id && idSet.has(String(m.message_id)))
WithIdIn(all, ids) ==
    SelectSeq(all, LAMBDA m :
        m.message_id # "" /\ \E i \in 1..Len(ids) : ids[i] = m.message_id)

\* getExamplesForTopic
getExamplesForTopic(topic, limit, all, examples, topics) ==
    LET lower == ToLowerCase(topic)
        exact == First(SelectSeq(examples.entries, LAMBDA e : e.topic = topic))
        loose == First(SelectSeq(examples.entries, LAMBDA e : ToLowerCase(e.topic) = lower))
        arr == IF Len(exact) = 1 /\ Len(exact[1].examples) > 0 THEN exact[1].examples
               ELSE IF Len(loose) = 1 THEN loose[1].examples ELSE <<>>
        entry == First(SelectSeq(topics.entries, LAMBDA t : ToLowerCase(t.topic) = lower))
        items == IF Len(entry) = 1
                 THEN SliceLimit(WithIdIn(all, entry[1].example_ids), limit)
                 ELSE <<>>
    IN  IF examples.served # "none" /\ Len(arr) > 0
        THEN [items |-> SliceLimit(arr, limit), branch |-> "static examples index"]
        ELSE IF topics.served # "none" /\ Len(items) > 0
        THEN [items |-> items, branch |-> "static topic index"]
        ELSE [items |-> <<>>, branch |-> "none"]

CandidateMinLength == 4
MaxCandidates == 800

\* all.filter((m) => (m.text || "").trim().length > 4).slice(-maxCandidates)
LlmCandidates(all) ==
    SliceLast(SelectSeq(all, LAMBDA m : Len(Trim(m.text)) > CandidateMinLength),
              Min(MaxCandidates, Len(all)))

\* The model's reply to one batch: the call throws (or its content is not
\* JSON), or parsed.ids is the array ids (empty when ids is not an array).
ReplyThrown == [throws |-> TRUE, ids |-> <<>>]
ReplyIds(ids) == [throws |-> FALSE, ids |-> ids]

\* selected after the loop over the batches from position i on, the reply of
\* the model being the same for every batch.
RECURSIVE LlmSelected(_, _, _, _, _)
LlmSelected(candidates, limit, reply, i, selected) ==
    IF i < Len(candidates) /\ limit.t = "num" /\ Len(selected) < limit.n
    THEN LlmSelected(candidates, limit, reply, i + BatchSize,
                     Unique(selected \o reply.ids))
    ELSE selected

\* byId.get(id) for the ids of selected, in order, the unknown ids dropped.
RECURSIVE ResolveIds(_, _)
ResolveIds(ids, msgs) ==
    IF Len(ids) = 0 THEN <<>>
    ELSE LET hits == SelectSeq(msgs, LAMBDA m : m.message_id # "" /\ m.message_id = ids[1])
         IN  (IF Len(hits) = 0 THEN <<>> ELSE <<hits[Len(hits)]>>)
             \o ResolveIds(Tail(ids), msgs)

\* The selection by the model: inTry says that one try block wraps the whole
\* loop, so that a call that throws leaves items empty; otherwise each call
\* has its own try block and a call that throws adds nothing to selected.
LlmItems(all, limit, reply, inTry) ==
    LET candidates == LlmCandidates(all)
        called == Len(candidates) > 0 /\ limit.t = "num" /\ limit.n > 0
        selected == IF reply.throws THEN <<>>
                    ELSE LlmSelected(candidates, limit, reply, 0, <<>>)
    IN  IF inTry /\ called /\ reply.throws THEN <<>>
        ELSE ResolveIds(SliceLimit(selected, limit), candidates)

FullMatchPoints == 5
TokenMatchPoints == 1
QueryTokenLength == 4

\* Array.from(new Set(q.split(/[^a-z0-9]+/g).filter((w) => w && w.length >= 4)))
QueryTokens(q) ==
    Unique(SelectSeq(SplitWords(q, ""), LAMBDA w : Len(w) >= QueryTokenLength))

\* The score of one payload of the examples index against the query.
QueryScore(m, q) ==
    LET text == ToLowerCase(m.text)
        qTokens == QueryTokens(q)
    IN  (IF Includes(text, q) THEN FullMatchPoints ELSE 0)
        + TokenMatchPoints * Cardinality({i \in 1..Len(qTokens) : Includes(text, qTokens[i])})

\* The payloads of every topic of an examples index, in file order.
RECURSIVE AllExamples(_)
AllExamples(entries) ==
    IF Len(entries) = 0 THEN <<>>
    ELSE entries[1].examples \o AllExamples(Tail(entries))

\* .sort((a, b) => b.score - a.score): stable, the higher score first.
RECURSIVE SortByScore(_)
SortByScore(rows) ==
    IF Len(rows) = 0 THEN <<>>
    ELSE LET top == CHOOSE i \in 1..Len(rows) :
                        /\ \A j \in 1..Len(rows) : rows[j].score <= rows[i].score
                        /\ \A j \in 1..(i - 1) : rows[j].score < rows[i].score
         IN  <<rows[top]>> \o
             SortByScore(SubSeq(rows, 1, top - 1) \o SubSeq(rows, top + 1, Len(rows)))

\* Lines 399-426: the payloads that score above 0, best first, cut at limit.
QueryHeuristic(examples, q, limit) ==
    LET allExamples == AllExamples(examples.entries)
        rows == [i \in 1..Len(allExamples) |->
                   [m |-> allExamples[i], score |-> QueryScore(allExamples[i], q)]]
        kept == SliceLimit(SortByScore(SelectSeq(rows, LAMBDA r : r.score > 0)), limit)
    IN  IF examples.served # "none" THEN [i \in 1..Len(kept) |-> kept[i].m] ELSE <<>>

\* The score of a topic name against the query (lines 447-452).
TopicNameScore(name, q) ==
    LET toks == SplitWords(name, "")
    IN  (IF Includes(q, name) THEN FullMatchPoints ELSE 0)
        + TokenMatchPoints * Cardinality({i \in 1..Len(toks) : Includes(q, toks[i])})

\* best after the loop of lines 446-457 over the entries from position i on.
RECURSIVE BestTopic(_, _, _, _, _)
BestTopic(entries, q, i, best, bestScore) ==
    IF i > Len(entries) THEN best
    ELSE LET name == ToLowerCase(entries[i].topic)
             score == TopicNameScore(name, q)
         IN  IF name # "" /\ score > bestScore
             THEN BestTopic(entries, q, i + 1, <<entries[i]>>, score)
             ELSE BestTopic(entries, q, i + 1, best, bestScore)

\* Lines 432-475: the examples of the topic whose name matches the query best.
TopicMapping(topics, q, all, limit) ==
    LET best == BestTopic(topics.entries, q, 1, <<>>, 0)
    IN  IF topics.served # "none" /\ Len(best) = 1
        THEN SliceLimit(WithIdIn(all, best[1].example_ids), limit)
        ELSE <<>>

Answer(items, branch) == [items |-> items, branch |-> branch]

NoAnswer == Answer(<<>>, "none")

\* Lines 284-301: the requested ids resolved in the examples index, inside
\* the date bounds and with a text that is not blank, cut at limit.
StaticByIds(examples, requested, fromMs, toMs, limit) ==
    LET payloads == AllExamples(examples.entries)
        resolved == ResolveIds(requested, payloads)
        kept == SelectSeq(resolved, LAMBDA m :
                    /\ ~(fromMs # 0 /\ ~(m.ts # 0 /\ m.ts >= fromMs))
                    /\ ~(toMs # 0 /\ ~(m.ts # 0 /\ m.ts <= toMs))
                    /\ Len(Trim(m.text)) > 0)
    IN  IF examples.served # "none" THEN SliceLimit(kept, limit) ELSE <<>>

\* Lines 264-373: the ids branch after D1 and getExamplesForTopic.
IdsBranch(topic, requested, limit, all, env, fromMs, toMs) ==
    LET resolved == StaticByIds(env.examples, requested, fromMs, toMs, limit)
        fromAll == SliceLimit(WithIdIn(all, requested), limit)
        exact == First(SelectSeq(env.examples.entries, LAMBDA e : e.topic = topic))
        arr == IF env.examples.served = "site" /\ Len(exact) = 1
               THEN exact[1].examples ELSE <<>>
    IN  IF Len(resolved) > 0 THEN Answer(resolved, "static examples index")
        ELSE IF Len(fromAll) > 0 \/ topic = "" THEN Answer(fromAll, "message file ids")
        ELSE IF Len(arr) > 0 THEN Answer(SliceLimit(arr, limit), "static examples index")
        ELSE Answer(LlmItems(all, limit, env.llm, TRUE), "model selection")

\* Lines 374-523: the query branch after D1.
QueryBranch(q, limit, all, env) ==
    LET direct == SliceLimit(SelectSeq(all, LAMBDA m : Includes(ToLowerCase(m.text), q)), limit)
        heuristic == QueryHeuristic(env.examplesAll, q, limit)
        mapped == TopicMapping(env.topicsAll, q, all, limit)
    IN  IF Len(direct) > 0 THEN Answer(direct, "keyword match")
        ELSE IF Len(heuristic) > 0 THEN Answer(heuristic, "token-overlap heuristic")
        ELSE IF Len(mapped) > 0 THEN Answer(mapped, "static topic index")
        ELSE Answer(LlmItems(all, limit, env.llm, TRUE), "model selection")

\* GET: what the handler answers with status 200.
GetExamples(req, env) ==
    LET q == ToLowerCase(Trim(req.q))
        limit == LookupLimit(req.limit)
        idsParam == Trim(req.ids)
        topic == Trim(req.topic)
        all == InBounds(env.all, req.fromMs, req.toMs)
        requested == RequestedIds(idsParam)
        topicMsgs == D1MessagesIn(env.db, D1TopicIds(env.db, topic, limit))
        idMsgs == D1MessagesIn(env.db, requested)
        matched == D1Match(env.db, q, limit)
        rows == IF Len(matched) > 0 THEN matched ELSE D1Like(env.db, q, limit)
        forTopic == getExamplesForTopic(topic, limit, all, env.examples, env.topics)
    IN  IF topic # "" /\ Len(topicMsgs) > 0 THEN Answer(topicMsgs, "D1 topic mapping")
        ELSE IF idsParam # "" /\ Len(idMsgs) > 0
        THEN Answer(SliceLimit(idMsgs, limit), "D1 ids")
        ELSE IF q # "" /\ Len(rows) > 0 THEN Answer(rows, "D1 search")
        ELSE IF topic # "" /\ Len(forTopic.items) > 0 THEN forTopic
        ELSE IF idsParam # ""
        THEN IdsBranch(topic, requested, limit, all, env, req.fromMs, req.toMs)
        ELSE IF q # "" THEN QueryBranch(q, limit, all, env)
        ELSE IF topic # "" THEN Answer(LlmItems(all, limit, env.llm, FALSE), "model selection")
        ELSE NoAnswer

\* The messages of the file: three that mention oauth, one without text (an
\* attachment only), one without id and without a timestamp that parses.
Callback == Message("1", 100, "OAuth callback fails")
Expired == Message("2", 200, "oauth token expired")
Attachment == Message("3", 300, "")
Scopes == Message("4", 400, "Need oauth scope docs")
Webhook == Message("", 0, "stripe webhook and oauth")
\* A later message that the examples index lists under another topic.
Refresh == Message("5", 500, "refresh the oauth token")

\* One message more than the highest limit, each with the word oauth.
ManyMessages ==
    [i \in 1..(LimitCeiling + 1) |-> Message(ToString(100 + i), 1000 + i, "oauth again")]

MessageFiles == {<<>>, <<Callback, Expired, Attachment, Scopes, Webhook>>, ManyMessages}

OAuthRows ==
    <<TopicRow("OAuth Issues", "2", 7), TopicRow("OAuth Issues", "1", 9),
      TopicRow("OAuth Issues", "4", 5), TopicRow("Stripe Plugin", "7", 8)>>

LookupDatabases ==
    {NoDatabase,
     Database(OAuthRows, <<Callback, Expired, Attachment, Scopes>>, TRUE),
     Database(<<>>, <<Callback, Expired, Scopes>>, FALSE)}

OAuthExamples ==
    <<ExamplesEntry("OAuth Issues", <<Scopes, Expired, Callback>>),
      ExamplesEntry("Uploads", <<Attachment, Refresh>>)>>

OAuthTopics ==
    <<TopicEntry("Uploads", <<"3">>), TopicEntry("oauth issues", <<"1", "2", "4">>)>>

\* The index files of the channel and the index files without a channel.
IndexFiles ==
    {[examples |-> NoFile, topics |-> NoFile],
     [examples |-> IndexFile("site", OAuthExamples), topics |-> NoFile],
     [examples |-> IndexFile("github", OAuthExamples), topics |-> IndexFile("site", OAuthTopics)],
     [examples |-> NoFile, topics |-> IndexFile("github", OAuthTopics)]}

ModelReplies == {ReplyThrown, ReplyIds(<<>>), ReplyIds(<<"4", "2", "9", "1">>)}

Environment(all, db, files, filesAll, llm) ==
    [all |-> all, db |-> db, examples |-> files.examples, topics |-> files.topics,
     examplesAll |-> filesAll.examples, topicsAll |-> filesAll.topics, llm |-> llm]

NoEnvironment == Environment(<<>>, NoDatabase, [examples |-> NoFile, topics |-> NoFile],
                             [examples |-> NoFile, topics |-> NoFile], ReplyThrown)

Environments ==
    {Environment(all, db, files, files, llm) :
        all \in MessageFiles, db \in LookupDatabases, files \in IndexFiles, llm \in ModelReplies}

LookupRequest(topic, ids, q, limit, fromMs, toMs) ==
    [topic |-> topic, ids |-> ids, q |-> q, limit |-> limit, fromMs |-> fromMs, toMs |-> toMs]

NoLookupRequest == LookupRequest("", "", "", JsNull, 0, 0)

TopicParams == {"", "OAuth Issues", "Billing"}
IdsParams == {"", "2, 1,4,9", "3"}
QueryParams == {"", "OAuth", "Expired Tokens ", "Billing"}
LimitParams == {JsNull, JsStr("1"), JsStr("2"), JsStr("0"), JsStr("99"), JsStr("abc")}
FromParams == {0, 150}

LookupRequests ==
    {LookupRequest(topic, ids, q, limit, fromMs, 0) :
        topic \in TopicParams, ids \in IdsParams, q \in QueryParams,
        limit \in LimitParams, fromMs \in FromParams}

NoLookupResponse == Answer(<<>>, "")

\* GET /api/examples answers one request.
LookupExamples ==
    /\ lkpc = "request"
    /\ lkResp' = GetExamples(lkReq, lkEnv)
    /\ lkpc' = "answered"
    /\ UNCHANGED <<lkReq, lkEnv>>
    /\ UNCHANGED <<scoreVars, rankVars, questionVars, kmeansVars, tokenVars, topicVars, fetchVars, statsVars, insightVars, seedVars>>

\* The limit of the request: the limit parameter clamped to [1, 50], 10 when
\* the parameter is absent or empty.
RequestLimit ==
    LET n == IF Truthy(lkReq.limit) THEN ToNumber(lkReq.limit) ELSE JsNum(DefaultLimit)
    IN  IF n.t = "nan" THEN n
        ELSE IF n.n < LimitFloor THEN JsNum(LimitFloor)
        ELSE IF n.n > LimitCeiling THEN JsNum(LimitCeiling)
        ELSE n

\* C15: the lookup answers at most limit items on every branch, limit being
\* the limit parameter clamped to [1, 50] with default 10 (and no item at all
\* when the parameter is not a number).
C15_AtMostLimitItems ==
    lkpc = "answered" =>
        /\ lkResp.branch \in
              {"D1 topic mapping", "D1 ids", "D1 search", "static examples index",
               "static topic index", "message file ids", "keyword match",
               "token-overlap heuristic", "model selection", "none"}
        /\ IF RequestLimit.t = "nan" THEN Len(lkResp.items) = 0
           ELSE Len(lkResp.items) <= RequestLimit.n

\* A request with limit=99 was answered by the keyword match with 50 of the
\* 51 messages that hold the query.
C15_Witness ==
    /\ lkpc = "answered"
    /\ lkReq.limit = JsStr("99")
    /\ lkResp.branch = "keyword match"
    /\ Len(lkEnv.all) > LimitCeiling
    /\ Len(lkResp.items) = LimitCeiling

\* The query as the handler compares it: trimmed and lower-cased.
RequestQuery == ToLowerCase(Trim(lkReq.q))

\* if (txt.length < 20) return false;
MinExampleLength == 20

\* The candidates of a query: the payloads of the examples index and the
\* messages of the file whose trimmed text has 20 characters or more.
QueryCandidates ==
    SelectSeq((IF lkEnv.examplesAll.served # "none"
               THEN AllExamples(lkEnv.examplesAll.entries) ELSE <<>>) \o lkEnv.all,
              LAMBDA m : Len(Trim(m.text)) >= MinExampleLength)

\* A request with a query alone, answered without the D1 cache.
QueryOnly ==
    /\ lkpc = "answered"
    /\ RequestQuery # ""
    /\ Trim(lkReq.topic) = ""
    /\ Trim(lkReq.ids) = ""
    /\ lkReq.fromMs = 0
    /\ lkEnv.db = NoDatabase
    /\ RequestLimit.t = "num"

\* The later timestamp first, for items whose timestamps parse.
ByRecency(items) ==
    \A i, j \in 1..Len(items) :
        (i < j /\ items[i].ts # 0 /\ items[j].ts # 0) => items[i].ts >= items[j].ts

\* C17: when candidates exist and none of them scores above 0 against the
\* query, the lookup answers the limit most recent candidates, ordered by
\* recency, and not an empty list.
C17_FallbackToMostRecent ==
    (/\ QueryOnly
     /\ Len(QueryCandidates) > 0
     /\ \A i \in 1..Len(QueryCandidates) : QueryScore(QueryCandidates[i], RequestQuery) = 0)
    => /\ Len(lkResp.items) = Min(RequestLimit.n, Len(QueryCandidates))
       /\ \A i \in 1..Len(lkResp.items) :
              \E c \in 1..Len(QueryCandidates) : QueryCandidates[c] = lkResp.items[i]
       /\ ByRecency(lkResp.items)

\* C18: the examples answered for a query are ordered by score descending,
\* and two of equal score by recency, the later timestamp first.
C18_ScoreThenRecency ==
    (QueryOnly /\ lkResp.branch = "token-overlap heuristic")
    => \A i, j \in 1..Len(lkResp.items) :
           i < j =>
               LET si == QueryScore(lkResp.items[i], RequestQuery)
                   sj == QueryScore(lkResp.items[j], RequestQuery)
               IN  \/ si > sj
                   \/ /\ si = sj
                      /\ (lkResp.items[i].ts # 0 /\ lkResp.items[j].ts # 0)
                             => lkResp.items[i].ts >= lkResp.items[j].ts

-----------------------------------------------------------------------------
(* main of generate_semantic_insights: documents, clusters, labels, examples *)

\* const docs = messages.map(...).filter((t)=>t.length>=3);
MinDocTokens == 3

\* The text of a message as main reads it: String(m.text||'')
TextOf(m) == IF m.text = "" THEN JsNull ELSE JsStr(m.text)

Docs(msgs) ==
    SelectSeq([i \in 1..Len(msgs) |-> DocTokens(TextOf(msgs[i]))],
              LAMBDA t : Len(t) >= MinDocTokens)

\* A function with its values computed once.
Stored(f) == f @@ <<>>

Range(seq) == {seq[i] : i \in 1..Len(seq)}

\* How many times x occurs in seq.
Count(seq, x) == Cardinality({i \in 1..Len(seq) : seq[i] = x})

\* Math.log of 1..14 in tenths, rounded.  The weights below are therefore
\* tenths too, and two similarities or phrase scores closer to each other
\* than this rounding are told apart by the program only.
LogTenths == <<0, 7, 11, 14, 16, 18, 19, 21, 22, 23, 24, 25, 26, 26>>

\* Math.log((1+N)/df) in tenths
LogRatio(n, df) == LogTenths[1 + n] - LogTenths[df]

IdfOne == 10

\* tfidfVectors: a Map is the function from its keys to their weights.
tfidfVectors(docs) ==
    LET df(t) == Cardinality({i \in 1..Len(docs) : t \in Range(docs[i])})
    IN  Stored([i \in 1..Len(docs) |->
            Stored([t \in Range(docs[i]) |->
                Count(docs[i], t) * (LogRatio(Len(docs), df(t)) + IdfOne)])])

\* b.get(k)||0
WeightOf(b, k) == IF k \in DOMAIN b THEN b[k] ELSE 0

\* for (const [k,v] of a) { ...; dot += v*w; } over the keys not yet read
RECURSIVE DotOfMaps(_, _, _)
DotOfMaps(a, b, keys) ==
    IF keys = {} THEN 0
    ELSE LET k == CHOOSE x \in keys : TRUE
         IN  a[k] * WeightOf(b, k) + DotOfMaps(a, b, keys \ {k})

SquareNorm(a) == DotOfMaps(a, a, DOMAIN a)

\* a/b > c/d for naturals a, c and positive b, d, without the products
RECURSIVE RatioGreater(_, _, _, _)
RatioGreater(a, b, c, d) ==
    IF a \div b # c \div d THEN a \div b > c \div d
    ELSE IF a % b = 0 THEN FALSE
    ELSE IF c % d = 0 THEN TRUE
    ELSE RatioGreater(d, c % d, b, a % b)

\* cosine(v, x) > cosine(v, y): dot/(sqrt(na)*sqrt(nb)||1) on both sides, the
\* dots being naturals.  An empty or zero map has similarity 0 to everything.
CosineGreater(v, x, y) ==
    LET dx == DotOfMaps(v, x, DOMAIN v)
        dy == DotOfMaps(v, y, DOMAIN v)
    IN  IF dx = 0 THEN FALSE
        ELSE IF dy = 0 THEN TRUE
        ELSE RatioGreater(dx * dx, SquareNorm(x), dy * dy, SquareNorm(y))

\* The group of v: best starts at 0 with bestSim -1 and moves on sim>bestSim.
RECURSIVE NearestOf(_, _, _, _)
NearestOf(v, cs, c, best) ==
    IF c > Len(cs) THEN best - 1
    ELSE IF CosineGreater(v, cs[c], cs[best])
         THEN NearestOf(v, cs, c + 1, c)
         ELSE NearestOf(v, cs, c + 1, best)

\* sums[c].get(t) once the vectors of `rest` are added
RECURSIVE TotalWeight(_, _, _)
TotalWeight(vs, t, rest) ==
    IF rest = {} THEN 0
    ELSE LET i == CHOOSE x \in rest : TRUE
         IN  WeightOf(vs[i], t) + TotalWeight(vs, t, rest \ {i})

\* sums[c] after the update loop: the keys of the members, weights added.
SumOfMembers(vs, as, c) ==
    LET members == {i \in 1..Len(vs) : as[i] = c}
        keys == UNION {DOMAIN vs[i] : i \in members}
    IN  Stored([t \in keys |-> TotalWeight(vs, t, members)])

\* kmeans(vectors, k) from round `round` on, to its return value.  The
\* centroids of every round after the first are the sums of the assignments
\* before it, so a round that assigns as the round before is repeated
\* unchanged by all the rounds left, and they are not unfolded here.
RECURSIVE KmeansFrom(_, _, _, _)
KmeansFrom(vs, cs, as, round) ==
    IF round = Iters THEN as
    ELSE LET next == Stored([i \in 1..Len(vs) |-> NearestOf(vs[i], cs, 2, 1)])
             sums == Stored([c \in 1..Len(cs) |-> SumOfMembers(vs, next, c - 1)])
         IN  IF round > 0 /\ next = as THEN as
             ELSE KmeansFrom(vs, sums, next, round + 1)

kmeans(vs, k) ==
    IF Len(vs) = 0 THEN <<>>
    ELSE KmeansFrom(vs, Slice0(vs, k), [i \in 1..Len(vs) |-> 0], 0)

MinClusters == 3
MaxClusters == 8
DocsPerCluster == 20

\* Math.min(8, Math.max(3, Math.floor(docs.length/20)))
ClusterCount(n) == Min(MaxClusters, Max(MinClusters, n \div DocsPerCluster))

\* clusters: the group indexes in the order of their first document, each
\* with the (0-based) indexes of its documents in ascending order.
Clusters(groups) ==
    LET order == Unique(groups)
    IN  [c \in 1..Len(order) |->
            [gi |-> order[c],
             idxs |-> SelectSeq([i \in 1..Len(groups) |-> i - 1],
                                LAMBDA i : groups[i + 1] = order[c])]]

\* The n-grams of a token stream that hold no stop-word, joined by a space,
\* in the order of their positions.
Grams(tokens, n) ==
    IF Len(tokens) < n THEN <<>>
    ELSE LET all == [i \in 1..(Len(tokens) - n + 1) |-> SubSeq(tokens, i, i + n - 1)]
             kept == SelectSeq(all, LAMBDA g : \A i \in 1..n : NotStop(g[i]))
         IN  [i \in 1..Len(kept) |-> Join(kept[i], " ")]

\* [...m.entries()] of a Map that counts keys: each key once, in the order of
\* its first insertion, with its count as score.
CountEntries(keys) ==
    LET places == SelectSeq([i \in 1..Len(keys) |-> i],
                            LAMBDA i : \A j \in 1..(i - 1) : keys[j] # keys[i])
        firsts == [p \in 1..Len(places) |-> keys[places[p]]]
    IN  Stored([i \in 1..Len(firsts) |->
                   [k |-> firsts[i], c |-> Count(keys, firsts[i]),
                    score |-> Count(keys, firsts[i])]])

KeysOf(rows) == [i \in 1..Len(rows) |-> rows[i].k]

\* frequentNGrams(tokens, n, top)
frequentNGrams(tokens, n, top) ==
    KeysOf(Slice0(SortByScore(CountEntries(Grams(tokens, n))), top))

\* topN(map, n) of the bag of a token stream
topN(tokens, n) == Slice0(SortByScore(CountEntries(tokens)), n)

\* dfGlobal.get(t)||1
dfGlobal(docs, t) ==
    LET df == Cardinality({i \in 1..Len(docs) : t \in Range(docs[i])})
    IN  IF df = 0 THEN 1 ELSE df

RECURSIVE LogRatioSum(_, _, _)
LogRatioSum(docs, toks, i) ==
    IF i > Len(toks) THEN 0
    ELSE LogRatio(Len(docs), dfGlobal(docs, toks[i])) + LogRatioSum(docs, toks, i + 1)

\* The common multiple of the phrase lengths 2, 3 and 4.
ScoreScale == 12

\* scorePhrase(toks).score * c, in tenths and times 12: the mean over 2, 3 or
\* 4 tokens is then a whole number.
PhraseScore(docs, key, c) ==
    LET toks == SplitOn(key, " ", "")
    IN  (LogRatioSum(docs, toks, 1) * c * ScoreScale) \div Max(1, Len(toks))

MinPhraseCount == 2
MinPhraseLength == 6

\* The loop that drops a phrase which holds, or is held by, one already taken.
RECURSIVE Deduplicated(_, _, _, _)
Deduplicated(rows, i, out, top) ==
    IF i > Len(rows) \/ Len(out) >= top THEN out
    ELSE IF \E u \in 1..Len(out) : Includes(rows[i].k, out[u]) \/ Includes(out[u], rows[i].k)
         THEN Deduplicated(rows, i + 1, out, top)
         ELSE Deduplicated(rows, i + 1, Append(out, rows[i].k), top)

\* The counted phrases without the filter r.c>=2 && r.k.length>=6.
AllPhrases(docs, tokensFlat) ==
    LET counts == CountEntries(Grams(tokensFlat, 4) \o Grams(tokensFlat, 3)
                                   \o Grams(tokensFlat, 2))
    IN  [i \in 1..Len(counts) |->
            [k |-> counts[i].k, c |-> counts[i].c,
             score |-> PhraseScore(docs, counts[i].k, counts[i].c)]]

\* The phrases that pass the filter r.c>=2 && r.k.length>=6, before the sort.
RepeatedPhrases(docs, tokensFlat) ==
    LET counts == CountEntries(Grams(tokensFlat, 4) \o Grams(tokensFlat, 3)
                                   \o Grams(tokensFlat, 2))
        rows == [i \in 1..Len(counts) |->
                    [k |-> counts[i].k, c |-> counts[i].c,
                     score |-> PhraseScore(docs, counts[i].k, counts[i].c)]]
    IN  SelectSeq(rows, LAMBDA r : r.c >= MinPhraseCount /\ Len(r.k) >= MinPhraseLength)

\* bestPhrases(tokensFlat, top)
bestPhrases(docs, tokensFlat, top) ==
    Deduplicated(SortByScore(RepeatedPhrases(docs, tokensFlat)), 1, <<>>, top)

\* tokensFlat: the documents of the cluster one after the other
RECURSIVE TokensFlat(_, _, _)
TokensFlat(docs, idxs, i) ==
    IF i > Len(idxs) THEN <<>>
    ELSE docs[idxs[i] + 1] \o TokensFlat(docs, idxs, i + 1)

MaxLabelWords == 4
TopPhrases == 3
TopTokens == 3

\* Lines 124: the first alternative that is not empty.
RawLabel(docs, tokensFlat) ==
    LET phrases == bestPhrases(docs, tokensFlat, TopPhrases)
        bigrams == frequentNGrams(tokensFlat, 2, 1)
        top == SelectSeq(KeysOf(topN(tokensFlat, TopTokens)), LAMBDA w : NotStop(w))
    IN  IF Len(phrases) > 0 /\ phrases[1] # "" THEN phrases[1]
        ELSE IF Len(bigrams) > 0 /\ bigrams[1] # "" THEN bigrams[1]
        ELSE Join(Slice0(top, TopTokens), " ")

\* Line 125: label.split(' ').filter(...).slice(0,4).join(' ')
Label(docs, tokensFlat) ==
    Join(Slice0(SelectSeq(SplitOn(RawLabel(docs, tokensFlat), " ", ""),
                          LAMBDA w : Len(w) >= MinTokenLength /\ NotStop(w)),
                MaxLabelWords), " ")

\* label || `Cluster ${gi+1}`
TopicName(label, gi) == IF label # "" THEN label ELSE "Cluster " \o ToString(gi + 1)

AckWords == {"ok", "thanks", "ty", "cool", "nice", "lol", "yes", "no", "yep", "np"}

\* /^(ok|thanks|ty|cool|nice|lol|yes|no|yep|np)[.!\s]/i.test(txt)
IsAcknowledgement(txt) ==
    LET low == ToLowerCase(txt)
    IN  \E w \in AckWords :
            /\ StartsWith(low, w)
            /\ Len(low) > Len(w)
            /\ CharAt(low, Len(w) + 1) \in ({".", "!"} \cup WhitespaceSet)

\* The filter of lines 129-134 on the text of one message.
HasRealContent(m) ==
    LET txt == Trim(m.text)
    IN  Len(txt) >= MinExampleLength /\ ~IsAcknowledgement(txt)

\* The overlap of one message with the label (lines 136-138).
LabelOverlap(m, label) ==
    LET labelTokens == {w \in Range(SplitOn(label, " ", "")) : w # ""}
    IN  Cardinality(labelTokens \cap Range(tokenizeValue(TextOf(m))))

MaxExamples == 12

\* chosen (lines 128-142): idxs are positions in docs, and messages[i] is
\* read with them.
Chosen(msgs, idxs, label) ==
    LET rows == [p \in 1..Len(idxs) |->
                    [i |-> idxs[p], score |-> LabelOverlap(msgs[idxs[p] + 1], label)]]
        candidateIdxs == SortByScore(SelectSeq(rows, LAMBDA r : HasRealContent(msgs[r.i + 1])))
        all == [p \in 1..Len(idxs) |-> [i |-> idxs[p], score |-> 0]]
        taken == Slice0(IF Len(candidateIdxs) > 0 THEN candidateIdxs ELSE all, MaxExamples)
    IN  [p \in 1..Len(taken) |-> taken[p].i]

\* topicExamples[name] = value: a key that exists keeps its place.
SetKey(entries, name, value) ==
    IF \E e \in 1..Len(entries) : entries[e].topic = name
    THEN [e \in 1..Len(entries) |->
             IF entries[e].topic = name THEN ExamplesEntry(name, value) ELSE entries[e]]
    ELSE Append(entries, ExamplesEntry(name, value))

\* Lines 58-65: the documents, their vectors, kmeans and the clusters.
ClusterMessages ==
    /\ tppc = "read"
    /\ tpDocs' = Docs(tpMessages)
    /\ tpClusters' = Clusters(kmeans(tfidfVectors(tpDocs'), ClusterCount(Len(tpDocs'))))
    /\ tppc' = "clustered"
    /\ UNCHANGED <<tpMessages, tpTopics, tpExamples, tpIndex>>
    /\ UNCHANGED <<scoreVars, rankVars, questionVars, kmeansVars, tokenVars, lookupVars, fetchVars, statsVars, insightVars, seedVars>>

\* One pass of the loop over the clusters (lines 119-153).
LabelCluster ==
    /\ tppc = "clustered"
    /\ Len(tpTopics) < Len(tpClusters)
    /\ LET cluster == tpClusters[Len(tpTopics) + 1]
           label == Label(tpDocs, TokensFlat(tpDocs, cluster.idxs, 1))
           chosen == Chosen(tpMessages, cluster.idxs, label)
           name == TopicName(label, cluster.gi)
       IN  /\ tpTopics' = Append(tpTopics, [topic |-> name, count |-> Len(chosen)])
           /\ tpExamples' = SetKey(tpExamples, name,
                                   [p \in 1..Len(chosen) |-> tpMessages[chosen[p] + 1]])
    /\ UNCHANGED <<tpMessages, tpDocs, tpClusters, tpIndex, tppc>>
    /\ UNCHANGED <<scoreVars, rankVars, questionVars, kmeansVars, tokenVars, lookupVars, fetchVars, statsVars, insightVars, seedVars>>

\* topicExamples[t.topic]||[]
ExamplesOf(entries, name) ==
    LET found == SelectSeq(entries, LAMBDA e : e.topic = name)
    IN  IF Len(found) > 0 THEN found[1].examples ELSE <<>>

\* The topic index written after the loop (lines 216-218).
WriteIndexes ==
    /\ tppc = "clustered"
    /\ Len(tpTopics) = Len(tpClusters)
    /\ tpIndex' = [t \in 1..Len(tpTopics) |->
                      TopicEntry(tpTopics[t].topic,
                                 LET ex == ExamplesOf(tpExamples, tpTopics[t].topic)
                                 IN  [p \in 1..Len(ex) |-> ex[p].message_id])]
    /\ tppc' = "written"
    /\ UNCHANGED <<tpMessages, tpDocs, tpClusters, tpTopics, tpExamples>>
    /\ UNCHANGED <<scoreVars, rankVars, questionVars, kmeansVars, tokenVars, lookupVars, fetchVars, statsVars, insightVars, seedVars>>

\* generate_topic_and_examples_index, run on the file of the same channel.

\* loadExistingTopics without a topic_index.json
DefaultTopics ==
    <<"Better Auth Integration", "OAuth Issues", "Database and ORM Concerns",
      "User Roles and Permissions", "Email Verification", "Session Management",
      "CORS Issues", "Stripe Plugin", "Documentation Gaps", "Multi-Tenancy">>

\* (str || "").toString().toLowerCase()
normalize(str) == ToLowerCase(str)

keywordsForTopic(topic) ==
    LET t == normalize(topic)
    IN  IF Includes(t, "oauth")
        THEN {"oauth", "provider", "callback", "redirect", "scope", "token", "github", "google"}
        ELSE IF Includes(t, "database") \/ Includes(t, "orm")
        THEN {"db", "database", "orm", "drizzle", "prisma", "sql", "migration", "schema"}
        ELSE IF Includes(t, "roles") \/ Includes(t, "permissions")
        THEN {"role", "permission", "rbac", "admin", "policy"}
        ELSE IF Includes(t, "email")
        THEN {"email", "verify", "verification", "magic link", "otp", "code"}
        ELSE IF Includes(t, "session")
        THEN {"session", "cookie", "jwt", "refresh", "invalidate", "expiry", "token"}
        ELSE IF Includes(t, "cors")
        THEN {"cors", "origin", "preflight", "header", "headers"}
        ELSE IF Includes(t, "stripe")
        THEN {"stripe", "billing", "checkout", "payment", "webhook"}
        ELSE IF Includes(t, "documentation") \/ Includes(t, "docs")
        THEN {"docs", "documentation", "guide", "readme", "example", "missing"}
        ELSE IF Includes(t, "multi") \/ Includes(t, "tenant") \/ Includes(t, "tenancy")
        THEN {"tenant", "multitenant", "multi tenancy", "org", "workspace", "team", "account"}
        ELSE {"better auth", "integration", "setup", "next", "drizzle", "neon", "trpc",
              "adapter", "authjs"}

messageMatches(msg, kws) ==
    LET text == normalize(msg.text)
    IN  text # "" /\ \E kw \in kws : Includes(text, kw)

\* parseDateOrId: the parsed timestamp, else the message id as a number, 0
\* for an id that BigInt rejects.  The ids used here are decimal numerals.
parseDateOrId(msg) ==
    IF msg.ts # 0 THEN msg.ts
    ELSE IF IsDigits(msg.message_id) THEN DigitsValue(msg.message_id, 0)
    ELSE 0

\* matched, in the order of the file
Matched(msgs, topic) == SelectSeq(msgs, LAMBDA m : messageMatches(m, keywordsForTopic(topic)))

\* matched left in the order of the file.
Unsorted(matched) == matched

\* matched.sort((a, b) => parseDateOrId(b) - parseDateOrId(a))
SortedByRecency(matched) ==
    LET rows == SortByScore([i \in 1..Len(matched) |->
                                [m |-> matched[i], score |-> parseDateOrId(matched[i])]])
    IN  [i \in 1..Len(rows) |-> rows[i].m]

DefaultCount == 10

\* The sorted matches without the cut at count.
PickAll(msgs, topic, count) == SortedByRecency(Matched(msgs, topic))

\* pickForTopic(messages, topic, count)
pickForTopic(msgs, topic, count) == Slice0(SortedByRecency(Matched(msgs, topic)), count)

\* uniqueBy(arr, (m) => String(m.message_id || "")).filter((m) => m && m.message_id)
UniqueWithId(arr) ==
    LET places == SelectSeq([i \in 1..Len(arr) |-> i],
                            LAMBDA i : /\ arr[i].message_id # ""
                                       /\ \A j \in 1..(i - 1) :
                                              arr[j].message_id # arr[i].message_id)
    IN  [p \in 1..Len(places) |-> arr[places[p]]]

\* picked for one topic (line 118)
Picked(msgs, topic) == UniqueWithId(pickForTopic(msgs, topic, DefaultCount))

\* examplesIndex after the topics names[1..n] (line 121)
RECURSIVE ExamplesIndexOf(_, _, _)
ExamplesIndexOf(msgs, names, n) ==
    IF n = 0 THEN <<>>
    ELSE SetKey(ExamplesIndexOf(msgs, names, n - 1), names[n], Picked(msgs, names[n]))

\* The topic names of a topic_index.json that exists before the run.
ExistingTopicLists == {DefaultTopics, <<"Stripe Plugin", "OAuth Issues", "Stripe Plugin">>}

\* main of generate_topic_and_examples_index (lines 111-126)
GenerateTopicIndex ==
    /\ tppc = "read"
    /\ \E names \in ExistingTopicLists :
           /\ tpTopics' = [t \in 1..Len(names) |->
                              [topic |-> names[t], count |-> Len(Picked(tpMessages, names[t]))]]
           /\ tpIndex' = [t \in 1..Len(names) |->
                             LET picked == Picked(tpMessages, names[t])
                             IN  TopicEntry(names[t],
                                            [p \in 1..Len(picked) |-> picked[p].message_id])]
           /\ tpExamples' = ExamplesIndexOf(tpMessages, names, Len(names))
    /\ tppc' = "indexed"
    /\ UNCHANGED <<tpMessages, tpDocs, tpClusters>>
    /\ UNCHANGED <<scoreVars, rankVars, questionVars, kmeansVars, tokenVars, lookupVars, fetchVars, statsVars, insightVars, seedVars>>

\* repair_examples, run on the files generate_semantic_insights wrote.

\* tokenize of repair_examples (line 122)
repairTokenize(text) == SplitWords(ToLowerCase(text), "")

\* arr.filter((m) => m && typeof m.text === 'string' && m.text.trim().length > 0)
WithText(arr) == SelectSeq(arr, LAMBDA m : Len(Trim(m.text)) > 0)

MinRepairLength == 20
MaxRepairExamples == 5

\* The number of tokens of the topic name that the message holds.
NameOverlap(m, name) ==
    Cardinality(Range(repairTokenize(name)) \cap Range(repairTokenize(m.text)))

\* candidates (lines 144-157)
RepairCandidates(msgs, name) ==
    LET long == SelectSeq(msgs, LAMBDA m : Len(Trim(m.text)) > MinRepairLength)
        rows == SelectSeq([i \in 1..Len(long) |->
                              [m |-> long[i], score |-> NameOverlap(long[i], name)]],
                          LAMBDA r : r.score >= 1)
        best == Slice0(SortByScore(rows), MaxRepairExamples)
    IN  [i \in 1..Len(best) |-> best[i].m]

\* examplesIdx after one pass of the loop, for the topic of this name
RepairTopic(msgs, entries, name) ==
    LET arr == WithText(ExamplesOf(entries, name))
        candidates == RepairCandidates(msgs, name)
    IN  IF Len(arr) = 0
        THEN (IF Len(candidates) > 0 THEN SetKey(entries, name, candidates) ELSE entries)
        ELSE SetKey(entries, name, arr)

\* examplesIdx after the passes for the topics index[1..n]
RECURSIVE RepairedExamples(_, _, _, _)
RepairedExamples(msgs, index, entries, n) ==
    IF n = 0 THEN entries
    ELSE RepairTopic(msgs, RepairedExamples(msgs, index, entries, n - 1), index[n].topic)

\* main of repair_examples (lines 124-175): both files after the run.
RepairExamples ==
    /\ tppc \in {"written", "repaired"}
    /\ tpExamples' = RepairedExamples(tpMessages, tpIndex, tpExamples, Len(tpIndex))
    /\ tpIndex' = [t \in 1..Len(tpIndex) |->
                      LET ex == ExamplesOf(RepairedExamples(tpMessages, tpIndex, tpExamples, t),
                                           tpIndex[t].topic)
                      IN  TopicEntry(tpIndex[t].topic,
                                     [p \in 1..Len(ex) |-> ex[p].message_id])]
    /\ tppc' = "repaired"
    /\ UNCHANGED <<tpMessages, tpDocs, tpClusters, tpTopics>>
    /\ UNCHANGED <<scoreVars, rankVars, questionVars, kmeansVars, tokenVars, lookupVars, fetchVars, statsVars, insightVars, seedVars>>

\* The texts of the channel: one that repeats itself, the same failure with
\* stop-words and in 15 characters, another matter in 20 characters, an
\* acknowledgement, and a message without text.  Two similarities or two
\* phrase scores that are equal in exact arithmetic are ordered by rounding in
\* the program and stay equal here; for the lists of up to MaxTopicMsgs + 2 of
\* these texts both arithmetics give the same clusters and labels.
TopicTexts ==
    {"token bad, oauth token bad", "the oauth token is bad", "oauth token bad",
     "stripe webhook fails", "Thanks! stripe webhook.", ""}

MaxTopicMsgs == 3

\* The file as fetch_discord writes it: the newest message first.
TopicMessages(texts) ==
    [i \in 1..Len(texts) |-> Message(ToString(i), 1000 - i, texts[i])]

\* A channel whose first two messages hold the same tokens in another order
\* and whose third holds them with one more; the first has no timestamp,
\* and the third was saved with the id of the second.
SameLabelChannel ==
    <<Message("1", 0, "oauth token stripe webhook"),
      Message("2", 998, "stripe webhook oauth token"),
      Message("2", 997, "oauth token fails stripe webhook")>>

\* A channel of 13 messages on one matter, the fourth and fifth in other
\* words than the rest.
LongChannelTexts ==
    LET often == "oauth token refresh fails"
        seldom == "token refresh breaks login"
    IN  <<often, often, often, seldom, seldom, often, often, often, often,
          often, often, often, often>>

\* The newest message of the long channel has no timestamp.
LongChannel == [TopicMessages(LongChannelTexts) EXCEPT ![1].ts = 0]

TopicMessageLists ==
    {TopicMessages(texts) : texts \in UNION {[1..n -> TopicTexts] : n \in 0..MaxTopicMsgs}}
        \cup {SameLabelChannel, LongChannel}


\* C16: every example attached to a topic, every id of a topic's example id
\* list and every item the lookup answers belongs to a message whose text is
\* not empty, also for a cluster none of whose candidates passes the filters.
C16_ExamplesHaveText ==
    /\ \A e \in 1..Len(tpExamples) :
           \A p \in 1..Len(tpExamples[e].examples) : tpExamples[e].examples[p].text # ""
    /\ \A t \in 1..Len(tpIndex) :
           \A p \in 1..Len(tpIndex[t].example_ids) :
               \E i \in 1..Len(tpMessages) :
                   /\ tpMessages[i].message_id = tpIndex[t].example_ids[p]
                   /\ tpMessages[i].text # ""
    /\ lkpc = "answered" => \A i \in 1..Len(lkResp.items) : lkResp.items[i].text # ""


\* The topics, clusters and examples are those of generate_semantic_insights.
InsightsRun == tppc \in {"clustered", "written"}

\* The token stream of the cluster that topic number t was made of.
StreamOf(t) == TokensFlat(tpDocs, tpClusters[t].idxs, 1)

\* The words of the name of topic number t.
WordsOf(t) == SplitOn(tpTopics[t].topic, " ", "")

\* At how many positions of the stream the words stand next to each other.
GramCount(stream, words) ==
    Cardinality({i \in 1..(Len(stream) - Len(words) + 1) :
                    SubSeq(stream, i, i + Len(words) - 1) = words})

\* Some 2-, 3- or 4-gram stands in the stream at 2 positions or more.
SomeRepeat(stream) ==
    \E n \in 2..4 : \E i \in 1..(Len(stream) - n + 1) :
        GramCount(stream, SubSeq(stream, i, i + n - 1)) >= 2

\* The three most frequent tokens of the stream, joined.
TopThree(stream) == Join(KeysOf(topN(stream, TopTokens)), " ")

\* C19 as stated: a label that is an n-gram of the stream occurs in it at
\* least 2 times, and without a 2-, 3- or 4-gram of 2 occurrences the label is
\* made of the three most frequent tokens.
C19_Original ==
    InsightsRun =>
    \A t \in 1..Len(tpTopics) :
        /\ Len(WordsOf(t)) >= 2 => GramCount(StreamOf(t), WordsOf(t)) # 1
        /\ ~SomeRepeat(StreamOf(t)) => tpTopics[t].topic = TopThree(StreamOf(t))

\* C19, amended: with a 2-, 3- or 4-gram of 2 occurrences in the stream the
\* label is such an n-gram and occurs at least 2 times; without one the label
\* is the most frequent 2-gram, which is the first 2-gram of the stream and
\* occurs once; the three most frequent tokens name only a stream without a
\* 2-gram.
C19_RepeatedPhraseOrFirstBigram ==
    InsightsRun =>
    \A t \in 1..Len(tpTopics) :
        IF SomeRepeat(StreamOf(t))
        THEN /\ Len(WordsOf(t)) \in 2..4
             /\ GramCount(StreamOf(t), WordsOf(t)) >= 2
        ELSE IF Len(StreamOf(t)) >= 2
        THEN /\ WordsOf(t) = SubSeq(StreamOf(t), 1, 2)
             /\ GramCount(StreamOf(t), WordsOf(t)) = 1
        ELSE tpTopics[t].topic = TopThree(StreamOf(t))

\* Two topics were written: one named by a phrase that occurs twice or more in
\* its cluster, one by a 2-gram that occurs once.
C19_Witness ==
    /\ tppc = "written"
    /\ \E t \in 1..Len(tpTopics) :
           SomeRepeat(StreamOf(t)) /\ GramCount(StreamOf(t), WordsOf(t)) >= 2
    /\ \E t \in 1..Len(tpTopics) :
           /\ ~SomeRepeat(StreamOf(t))
           /\ Len(WordsOf(t)) = 2
           /\ GramCount(StreamOf(t), WordsOf(t)) = 1


\* The text of some message of the cluster of topic number t holds a
\* stop-word.
StopWordInCluster(t) ==
    \E p \in 1..Len(tpClusters[t].idxs) :
        \E m \in 1..Len(tpMessages) :
            /\ DocTokens(TextOf(tpMessages[m])) = tpDocs[tpClusters[t].idxs[p] + 1]
            /\ \E w \in Range(tokenize(tpMessages[m].text)) : w \in STOP

\* C20: the name of every topic has at most 4 words, none of them a
\* stop-word; it is the label of the cluster where the label is not empty and
\* "Cluster N" with N the group index plus one where it is.
C20_ShortLabelOrClusterNumber ==
    InsightsRun =>
    \A t \in 1..Len(tpTopics) :
        /\ Len(WordsOf(t)) <= MaxLabelWords
        /\ \A w \in 1..Len(WordsOf(t)) : WordsOf(t)[w] \notin STOP
        /\ IF Label(tpDocs, StreamOf(t)) = ""
           THEN tpTopics[t].topic = "Cluster " \o ToString(tpClusters[t].gi + 1)
           ELSE tpTopics[t].topic = Label(tpDocs, StreamOf(t))

\* A topic of some words was named from messages that hold stop-words.
C20_Witness ==
    /\ tppc = "written"
    /\ \E t \in 1..Len(tpTopics) :
           /\ StopWordInCluster(t)
           /\ Len(WordsOf(t)) >= 2
           /\ tpTopics[t].topic # ""


\* The positions in messages of the messages that docs keeps, in order: the
\* document at index d of docs was made of the message at DocSources[d + 1].
DocSources(msgs) ==
    SelectSeq([i \in 1..Len(msgs) |-> i],
              LAMBDA i : Len(DocTokens(TextOf(msgs[i]))) >= MinDocTokens)

\* C27: every example stored for a topic is a message whose own document is
\* in a cluster of that topic's name, also when messages without 3 kept
\* tokens were dropped from docs.
C27_ExamplesAreClusterMembers ==
    InsightsRun =>
    \A e \in 1..Len(tpExamples) :
        \A x \in 1..Len(tpExamples[e].examples) :
            \E t \in 1..Len(tpTopics) :
                /\ tpTopics[t].topic = tpExamples[e].topic
                /\ \E p \in 1..Len(tpClusters[t].idxs) :
                       tpMessages[DocSources(tpMessages)[tpClusters[t].idxs[p] + 1]]
                           = tpExamples[e].examples[x]


\* The examples stored under the name of topic number t.
ExamplesOfTopic(t) == ExamplesOf(tpExamples, tpTopics[t].topic)

\* Every element of seq stands before those it is at least as recent as.
MostRecentFirst(seq) ==
    \A p, q \in 1..Len(seq) : p < q => parseDateOrId(seq[p]) >= parseDateOrId(seq[q])

NoIdTwice(ids) == \A p, q \in 1..Len(ids) : p # q => ids[p] # ids[q]

\* The place of message m in the file.
PlaceOf(m) == CHOOSE i \in 1..Len(tpMessages) : tpMessages[i] = m

\* C21 as stated: every example id list of a written topic index is ordered
\* most-recent-first, holds at most 10 ids and no id twice.
C21_Original ==
    tppc \in {"written", "indexed"} =>
    \A t \in 1..Len(tpIndex) :
        /\ MostRecentFirst(ExamplesOfTopic(t))
        /\ Len(tpIndex[t].example_ids) <= DefaultCount
        /\ NoIdTwice(tpIndex[t].example_ids)

\* C21, amended: the lists of generate_topic_and_examples_index are ordered
\* most-recent-first, hold at most 10 ids and no id twice; the lists of
\* generate_semantic_insights hold at most 12 ids, ordered by falling overlap
\* with the label and in file order between equal overlaps, or in file order
\* alone where no chosen message passes the content filter.
C21_RecentFirstOrByOverlap ==
    /\ tppc = "indexed" =>
           \A t \in 1..Len(tpIndex) :
               /\ MostRecentFirst(ExamplesOfTopic(t))
               /\ Len(tpIndex[t].example_ids) <= DefaultCount
               /\ NoIdTwice(tpIndex[t].example_ids)
               /\ tpIndex[t].example_ids =
                      [p \in 1..Len(ExamplesOfTopic(t)) |-> ExamplesOfTopic(t)[p].message_id]
    /\ tppc = "written" =>
           \A t \in 1..Len(tpIndex) :
               LET ex == ExamplesOfTopic(t)
                   label == tpTopics[t].topic
               IN  /\ Len(tpIndex[t].example_ids) <= MaxExamples
                   /\ \A p, q \in 1..Len(ex) : p < q =>
                          IF HasRealContent(ex[1])
                          THEN \/ LabelOverlap(ex[p], label) > LabelOverlap(ex[q], label)
                               \/ /\ LabelOverlap(ex[p], label) = LabelOverlap(ex[q], label)
                                  /\ PlaceOf(ex[p]) < PlaceOf(ex[q])
                          ELSE PlaceOf(ex[p]) < PlaceOf(ex[q])

\* The topic index script wrote a topic with 10 ids out of more than 10
\* matching messages, the newest in the file not among them for want of a
\* timestamp.
C21_Witness ==
    /\ tppc = "indexed"
    /\ \E t \in 1..Len(tpIndex) :
           /\ Len(tpIndex[t].example_ids) = DefaultCount
           /\ Len(Matched(tpMessages, tpTopics[t].topic)) > DefaultCount
           /\ tpMessages[1].ts = 0
           /\ \A p \in 1..DefaultCount : tpIndex[t].example_ids[p] # tpMessages[1].message_id


\* How many of the messages read at the indexes idxs pass the content filter.
RealContentCount(idxs) ==
    Cardinality({p \in 1..Len(idxs) : HasRealContent(tpMessages[idxs[p] + 1])})

\* C22 as stated: the count of a topic is the number of messages that belong
\* to it before the cut: the matches of its keywords, or the documents of its
\* cluster.
C22_Original ==
    /\ tppc = "indexed" =>
           \A t \in 1..Len(tpTopics) :
               tpTopics[t].count = Len(Matched(tpMessages, tpTopics[t].topic))
    /\ tppc = "written" =>
           \A t \in 1..Len(tpTopics) : tpTopics[t].count = Len(tpClusters[t].idxs)

\* C22, amended: the count of a topic is the number of examples selected for
\* it after the cut: the length of its id list, at most 10, in the topic
\* index script, and in generate_semantic_insights the number of messages
\* read for the cluster that pass the content filter, or of all of them where
\* none passes, cut at 12.
C22_CountIsAfterTheCut ==
    /\ tppc = "indexed" =>
           \A t \in 1..Len(tpTopics) :
               /\ tpTopics[t].count = Len(tpIndex[t].example_ids)
               /\ tpTopics[t].count <= DefaultCount
    /\ tppc = "written" =>
           \A t \in 1..Len(tpTopics) :
               tpTopics[t].count =
                   Min(MaxExamples,
                       IF RealContentCount(tpClusters[t].idxs) > 0
                       THEN RealContentCount(tpClusters[t].idxs)
                       ELSE Len(tpClusters[t].idxs))

\* A topic of more matching messages than the cut was written with the count
\* of its cut list.
C22_Witness ==
    /\ tppc = "indexed"
    /\ \E t \in 1..Len(tpTopics) :
           /\ Len(Matched(tpMessages, tpTopics[t].topic)) > DefaultCount
           /\ tpTopics[t].count = DefaultCount


\* C26: after repair_examples every topic of the topic index has an example
\* with text, no example kept for a topic of the index is without text, and
\* the example_ids of every topic are the message ids of its entry in the
\* examples index.
C26_RepairedTopicsHaveText ==
    tppc = "repaired" =>
    \A t \in 1..Len(tpIndex) :
        /\ \E p \in 1..Len(ExamplesOfTopic(t)) : Trim(ExamplesOfTopic(t)[p].text) # ""
        /\ \A p \in 1..Len(ExamplesOfTopic(t)) : Trim(ExamplesOfTopic(t)[p].text) # ""
        /\ tpIndex[t].example_ids =
               [p \in 1..Len(ExamplesOfTopic(t)) |-> ExamplesOfTopic(t)[p].message_id]


\* The ids of the messages chosen for cluster t by generate_semantic_insights
\* (lines 136-143).
ChosenIds(t) ==
    LET label == Label(tpDocs, TokensFlat(tpDocs, tpClusters[t].idxs, 1))
        chosen == Chosen(tpMessages, tpClusters[t].idxs, label)
    IN  [p \in 1..Len(chosen) |-> tpMessages[chosen[p] + 1].message_id]

\* C28: in every written topic index the count of a topic is the length of
\* its example_ids, and the example_ids are the ids of the examples selected
\* for that topic: the messages chosen for its cluster by
\* generate_semantic_insights, the messages picked for it by
\* generate_topic_and_examples_index, and its entry of the examples index
\* after repair_examples.
C28_CountAndIdsOfTheSameTopic ==
    tppc \in {"written", "indexed", "repaired"} =>
    \A t \in 1..Len(tpIndex) :
        /\ tpTopics[t].count = Len(tpIndex[t].example_ids)
        /\ tppc = "written" => tpIndex[t].example_ids = ChosenIds(t)
        /\ tppc = "indexed" =>
               tpIndex[t].example_ids =
                   [p \in 1..Len(Picked(tpMessages, tpTopics[t].topic)) |->
                       Picked(tpMessages, tpTopics[t].topic)[p].message_id]
        /\ tppc = "repaired" =>
               tpIndex[t].example_ids =
                   [p \in 1..Len(ExamplesOfTopic(t)) |-> ExamplesOfTopic(t)[p].message_id]

-----------------------------------------------------------------------------
(* fetch_discord_channel: the paging loop over the channel's messages *)

\* limit, the page size asked of the server (100 in the script).
PageLimit == 2

\* The bound of the loop counter (1000 in the script).
MaxPages == 4

\* The longest channel on the server.
MaxChannel == 4

\* A message of the server: its id and its timestamp as Date.parse reads it,
\* 0 for a timestamp that does not parse.
Served(id, ts) == [id |-> id, ts |-> ts]

\* The id and the time of the message at place p of a channel, the newest
\* message at place 1.
ServedId(p) == ToString(10 - p)
ServedTime(p) == 100 - 10 * p

\* The channels: ids and times fall from the newest message on, and any
\* message may carry a timestamp that does not parse.
Channels ==
    UNION {{[p \in 1..n |-> Served(ServedId(p), IF p \in bad THEN 0 ELSE ServedTime(p))] :
               bad \in SUBSET (1..n)} : n \in 0..MaxChannel}

\* The cutoffs: none, one that falls inside the first page, one inside the
\* second page, and one older than every message.
Cutoffs == {0, 85, 65, 5}

\* What the server answers to ?limit=..&before=..: the messages after the one
\* with id before, from the newest when before is not sent, limit at most.
PageAfter(channel, before) ==
    LET at == {p \in 1..Len(channel) : channel[p].id = before}
        from == IF before = "" THEN 0
                ELSE IF at = {} THEN Len(channel)
                ELSE CHOOSE p \in at : TRUE
    IN  SubSeq(channel, from + 1, Min(Len(channel), from + PageLimit))

\* cutoff && Number.isFinite(ts) && ts < cutoff
OlderThanCutoff(m, cutoff) == cutoff # 0 /\ m.ts # 0 /\ m.ts < cutoff

\* The place of the first message of the batch that is older than the cutoff,
\* 0 when there is none: where the inner loop breaks.
FirstOlder(batch, cutoff) ==
    LET older == {p \in 1..Len(batch) : OlderThanCutoff(batch[p], cutoff)}
    IN  IF older = {} THEN 0 ELSE CHOOSE p \in older : \A q \in older : p <= q

\* The messages the inner loop pushes: those before its break.
Pushed(batch, cutoff) ==
    IF FirstOlder(batch, cutoff) = 0 THEN batch
    ELSE SubSeq(batch, 1, FirstOlder(batch, cutoff) - 1)

\* The loop condition fails: pages has reached its bound.
PagesExhausted ==
    /\ ftpc = "loop"
    /\ ftPages >= MaxPages
    /\ ftpc' = "after"
    /\ UNCHANGED <<ftChannel, ftCutoff, ftBefore, ftPages, ftBatch, ftSaved>>
    /\ UNCHANGED <<scoreVars, rankVars, questionVars, kmeansVars, tokenVars, lookupVars, topicVars, statsVars, insightVars, seedVars>>

\* A pass of the loop answered with status 429: wait and continue, which
\* counts the pass.
RateLimited ==
    /\ ftpc = "loop"
    /\ ftPages < MaxPages
    /\ ftPages' = ftPages + 1
    /\ UNCHANGED <<ftChannel, ftCutoff, ftBefore, ftBatch, ftSaved, ftpc>>
    /\ UNCHANGED <<scoreVars, rankVars, questionVars, kmeansVars, tokenVars, lookupVars, topicVars, statsVars, insightVars, seedVars>>

\* A pass answered with another status that is not ok: main throws and
\* nothing is saved.
HttpError ==
    /\ ftpc = "loop"
    /\ ftPages < MaxPages
    /\ ftpc' = "failed"
    /\ UNCHANGED <<ftChannel, ftCutoff, ftBefore, ftPages, ftBatch, ftSaved>>
    /\ UNCHANGED <<scoreVars, rankVars, questionVars, kmeansVars, tokenVars, lookupVars, topicVars, statsVars, insightVars, seedVars>>

\* A pass answered with a batch: break on an empty batch; push the messages
\* up to the first one older than the cutoff, which sets before to null;
\* break when before is null; else before becomes the id of the last message
\* and the next pass begins.
FetchPage ==
    /\ ftpc = "loop"
    /\ ftPages < MaxPages
    /\ LET batch == PageAfter(ftChannel, ftBefore)
           before == IF FirstOlder(batch, ftCutoff) # 0 THEN "" ELSE ftBefore
       IN  /\ ftBatch' = batch
           /\ IF Len(batch) = 0
              THEN /\ ftpc' = "after"
                   /\ UNCHANGED <<ftBefore, ftPages, ftSaved>>
              ELSE /\ ftSaved' = ftSaved \o Pushed(batch, ftCutoff)
                   /\ IF before = ""
                      THEN /\ ftBefore' = before
                           /\ ftpc' = "after"
                           /\ UNCHANGED ftPages
                      ELSE /\ ftBefore' = batch[Len(batch)].id
                           /\ ftPages' = ftPages + 1
                           /\ ftpc' = "loop"
    /\ UNCHANGED <<ftChannel, ftCutoff>>
    /\ UNCHANGED <<scoreVars, rankVars, questionVars, kmeansVars, tokenVars, lookupVars, topicVars, statsVars, insightVars, seedVars>>

\* After the loop the messages are written to the channel's file.
SaveMessages ==
    /\ ftpc = "after"
    /\ ftpc' = "saved"
    /\ UNCHANGED <<ftChannel, ftCutoff, ftBefore, ftPages, ftBatch, ftSaved>>
    /\ UNCHANGED <<scoreVars, rankVars, questionVars, kmeansVars, tokenVars, lookupVars, topicVars, statsVars, insightVars, seedVars>>

\* C29: the loop stops only on an empty batch, on a message older than the
\* cutoff or when pages has reached its bound (after a batch that is not
\* empty and has no message older than the cutoff the next page is asked
\* with before = the id of the batch's last message), and no saved message
\* has a timestamp that parses and is earlier than the cutoff.
C29_PagesUntilEmptyOrCutoff ==
    /\ ftpc \in {"after", "saved"} =>
           \/ Len(ftBatch) = 0
           \/ FirstOlder(ftBatch, ftCutoff) # 0
           \/ ftPages >= MaxPages
    /\ \A p \in 1..Len(ftSaved) : ~OlderThanCutoff(ftSaved[p], ftCutoff)

-----------------------------------------------------------------------------
(* GET /api/stats: contributors and sample size of the channel's messages *)

\* A message of the file: its author_id, its author and its timestamp as
\* Date.parse reads it, 0 for one that does not parse.
StatMessage(author_id, author, ts) == [author_id |-> author_id, author |-> author, ts |-> ts]

NoStats == [contributors |-> <<>>, sampleSize |-> 0]

\* What a fetch answers: "throws", "notok", "notarray", or "list" with the
\* array parsed from the body; "unset" stands for no DISCORD_JSON_URL.
Fetched(kind, list) == [kind |-> kind, list |-> list]

\* (m.author_id || m.author || "").trim()
AuthorKey(m) == Trim(IF m.author_id # "" THEN m.author_id ELSE m.author)

\* The keys of byId in insertion order: the first message of every author.
AuthorKeys(msgs) ==
    LET places == SelectSeq([i \in 1..Len(msgs) |-> i],
                            LAMBDA i : /\ AuthorKey(msgs[i]) # ""
                                       /\ \A j \in 1..(i - 1) :
                                              AuthorKey(msgs[j]) # AuthorKey(msgs[i]))
    IN  [p \in 1..Len(places) |-> AuthorKey(msgs[places[p]])]

\* A count that stays at 1 after the author's first message.
CountOnce(msgs, id) == 1

\* prev.count += 1 for every further message of the author
CountOf(msgs, id) == Cardinality({i \in 1..Len(msgs) : AuthorKey(msgs[i]) = id})

MaxContributors == 10

\* computeContributors(msgs)
computeContributors(msgs) ==
    LET keys == AuthorKeys(msgs)
        rows == SortByScore([k \in 1..Len(keys) |->
                                [m |-> keys[k], score |-> CountOf(msgs, keys[k])]])
    IN  Slice0([r \in 1..Len(rows) |-> [authorId |-> rows[r].m, count |-> rows[r].score]],
               MaxContributors)

\* The filter of the static files: a timestamp that parses, not before from
\* and not after to, a bound of 0 being no bound.
WithinBounds(m, from, to) ==
    /\ m.ts # 0
    /\ ~(from # 0 /\ m.ts < from)
    /\ ~(to # 0 /\ m.ts > to)

FilteredByBounds(list, from, to) ==
    IF from # 0 \/ to # 0
    THEN SelectSeq(list, LAMBDA m : WithinBounds(m, from, to))
    ELSE list

\* The final fallback: the raw file of the repository.
ReadRaw(raw) == IF raw.kind = "list" THEN raw.list ELSE <<>>

\* The loop over the static candidates from place c on, then the raw file.
RECURSIVE ReadStatic(_, _, _, _, _)
ReadStatic(candidates, c, raw, from, to) ==
    IF c > Len(candidates) THEN ReadRaw(raw)
    ELSE IF /\ candidates[c].kind = "list"
            /\ Len(FilteredByBounds(candidates[c].list, from, to)) > 0
         THEN FilteredByBounds(candidates[c].list, from, to)
         ELSE ReadStatic(candidates, c + 1, raw, from, to)

\* readDiscordMessages(req)
readDiscordMessages(req, env) ==
    IF env.direct.kind # "unset"
    THEN IF env.direct.kind = "list" THEN env.direct.list ELSE <<>>
    ELSE ReadStatic(env.candidates, 1, env.raw, req.from, req.to)

\* GET: the messages are read, counted and answered with status 200.
GetStats ==
    /\ stpc = "request"
    /\ stMsgs' = readDiscordMessages(stReq, stEnv)
    /\ stResp' = [contributors |-> computeContributors(stMsgs'),
                  sampleSize |-> Len(stMsgs')]
    /\ stpc' = "answered"
    /\ UNCHANGED <<stReq, stEnv>>
    /\ UNCHANGED <<scoreVars, rankVars, questionVars, kmeansVars, tokenVars, lookupVars, topicVars, fetchVars, insightVars, seedVars>>

\* The messages of the files: ann once with her id and once without, bob,
\* a message without author, and one whose timestamp does not parse.
StatPool ==
    {StatMessage("u1", "ann", 10), StatMessage("", "ann", 20),
     StatMessage("u2", "bob", 30), StatMessage("", "", 40), StatMessage("u2", "bob", 0)}

MaxStatMsgs == 2

\* Twelve messages by eleven authors, the ninth author writing twice.
CrowdChannel ==
    [i \in 1..12 |-> StatMessage("u" \o ToString(IF i = 12 THEN 9 ELSE i), "", 10 + i)]

StatFiles ==
    UNION {[1..n -> StatPool] : n \in 0..MaxStatMsgs} \cup {CrowdChannel}

FromBounds == {0, 15}
ToBounds == {0, 35}

\* The second static file and the raw file, when they are reached.
OtherFile == <<StatMessage("u1", "ann", 10), StatMessage("u2", "bob", 50),
               StatMessage("u2", "bob", 30)>>

StatEnvironments ==
    {[direct |-> d, candidates |-> <<Fetched("throws", <<>>), Fetched("throws", <<>>)>>,
      raw |-> Fetched("notok", <<>>)] :
        d \in {Fetched("throws", <<>>), Fetched("notok", <<>>), Fetched("notarray", <<>>)}
              \cup {Fetched("list", f) : f \in StatFiles}}
    \cup
    {[direct |-> Fetched("unset", <<>>), candidates |-> <<c1, c2>>, raw |-> r] :
        c1 \in {Fetched("throws", <<>>), Fetched("notok", <<>>)}
               \cup {Fetched("list", f) : f \in StatFiles},
        c2 \in {Fetched("notok", <<>>), Fetched("list", OtherFile)},
        r \in {Fetched("notok", <<>>), Fetched("notarray", <<>>), Fetched("list", OtherFile)}}


\* The author id of a message as the file gives it: author_id, else author.
AuthorOf(m) == IF m.author_id # "" THEN m.author_id ELSE m.author

\* C23: every contributor answered has an author id, and a count equal to
\* the number of messages read whose author id (author_id, else author) is
\* its id, so that messages without author count for nobody; the list is in
\* order of non-increasing count and has at most 10 entries; sampleSize is
\* the number of messages read.
C23_ContributorsCounted ==
    stpc = "answered" =>
    LET cs == stResp.contributors
    IN  /\ \A c \in 1..Len(cs) :
               /\ cs[c].authorId # ""
               /\ cs[c].count =
                      Cardinality({p \in 1..Len(stMsgs) : AuthorOf(stMsgs[p]) = cs[c].authorId})
        /\ \A c \in 1..(Len(cs) - 1) : cs[c].count >= cs[c + 1].count
        /\ Len(cs) <= 10
        /\ stResp.sampleSize = Len(stMsgs)

\* Eleven authors wrote, ten are answered, and the one who wrote twice, the
\* ninth in the file, comes first.
C23_Witness ==
    /\ stpc = "answered"
    /\ Cardinality({AuthorOf(stMsgs[p]) : p \in 1..Len(stMsgs)}) = 11
    /\ Len(stResp.contributors) = 10
    /\ stResp.contributors[1] = [authorId |-> "u9", count |-> 2]
    /\ stResp.sampleSize = 12

\* C30: when from or to is given, every message read, and so every message
\* behind contributors, weekdays and sampleSize, has a timestamp that parses
\* and lies between the bounds given, whichever source answered.
C30_BoundsApplyToEverySource ==
    (stpc = "answered" /\ (stReq.from # 0 \/ stReq.to # 0)) =>
    \A p \in 1..Len(stMsgs) :
        /\ stMsgs[p].ts # 0
        /\ stReq.from # 0 => stReq.from <= stMsgs[p].ts
        /\ stReq.to # 0 => stMsgs[p].ts <= stReq.to

-----------------------------------------------------------------------------
(* GET /api/insights: the D1 cache in front of the language model *)

\* const ttlSec = 6 * 3600
TtlSeconds == 6 * 3600

\* The step of the clock: half the time a written row lives.
TickMs == (TtlSeconds * 1000) \div 2

\* The clock stops after this many steps.
MaxTicks == 3

DefaultChannelId == "1288403910284935182"

\* (channelParam || "").trim() || "1288403910284935182"
ChannelIdOf(channelParam) ==
    IF Trim(channelParam) # "" THEN Trim(channelParam) ELSE DefaultChannelId

\* `seo:${channelId}`
KindOf(channelId) == "seo:" \o channelId

\* An insights payload, told from the others by the count of its one topic;
\* the payload of coerceInsights' catch has no topic.
Payload(n) == [topics |-> n]
EmptyPayload == Payload(0)

\* The text of column data: JSON of a payload, or text that does not parse.
JsonText(payload) == [json |-> TRUE, payload |-> payload]
NotJsonText == [json |-> FALSE, payload |-> EmptyPayload]

\* A row of table insights without its key; NULL in generated_at or
\* ttl_seconds is 0, as row.generated_at || 0 and row.ttl_seconds || 0 read it.
InsightsRow(data, generated_at, ttl_seconds) ==
    [data |-> data, generated_at |-> generated_at, ttl_seconds |-> ttl_seconds]

\* No row for the kind.
NoRow == [data |-> NotJsonText, generated_at |-> -1, ttl_seconds |-> -1]

\* The test with the expiry time itself still fresh.
UnexpiredAtExpiry(row, now) ==
    row.ttl_seconds = 0 \/ now <= row.generated_at + row.ttl_seconds * 1000

\* !row.ttl_seconds || Date.now() < expiresAt
Unexpired(row, now) ==
    row.ttl_seconds = 0 \/ now < row.generated_at + row.ttl_seconds * 1000

\* The cache answers: a row was read, it has not expired and its data parses.
CacheServes(read, row, now) ==
    /\ read = "ok"
    /\ row # NoRow
    /\ Unexpired(row, now)
    /\ row.data.json

\* What the model call does: it throws, or it returns a content.
Completion(kind, payload) == [kind |-> kind, payload |-> payload]
Completions ==
    {Completion("throws", EmptyPayload), Completion("notjson", EmptyPayload),
     Completion("json", Payload(1))}

\* coerceInsights(content)
coerceInsights(reply) == IF reply.kind = "json" THEN reply.payload ELSE EmptyPayload

\* INSERT .. ON CONFLICT(uid,kind) DO UPDATE SET data, generated_at, ttl_seconds
UpsertInsights(table, kind, parsed, now) ==
    [table EXCEPT ![kind] = InsightsRow(JsonText(parsed), now, TtlSeconds)]

\* A request with what its collaborators do, and Date.now() when it is served
\* (0 until then).
InsightsRequest(channel, apiKey, transcript, read, reply, write) ==
    [channel |-> channel, apiKey |-> apiKey, transcript |-> transcript,
     read |-> read, reply |-> reply, write |-> write, at |-> 0]

NoInsightsRequest ==
    InsightsRequest("", FALSE, FALSE, "none", Completion("none", EmptyPayload), "none")

\* The answer of GET, with where its body came from and whether the model
\* was called.
InsightsResponse(status, source, body, called) ==
    [status |-> status, source |-> source, body |-> body, called |-> called]

NoInsightsResponse == InsightsResponse(0, "none", EmptyPayload, FALSE)

ChannelParams == {"", " 42 "}

\* The requests with what their collaborators do, as far as GET gets to them:
\* no key; a key and no transcript; a key and a transcript, with the read of
\* the cache, the model call and the write of the cache each working or not.
InsightsRequests ==
    {InsightsRequest(ch, FALSE, FALSE, "none", Completion("none", EmptyPayload), "none") :
        ch \in ChannelParams}
    \cup {InsightsRequest(ch, TRUE, FALSE, "none", Completion("none", EmptyPayload), "none") :
        ch \in ChannelParams}
    \cup {InsightsRequest(ch, TRUE, TRUE, rd, rp, wr) :
        ch \in ChannelParams, rd \in {"ok", "throws"}, rp \in Completions,
        wr \in {"ok", "throws"}}

\* GET: 400 without key, 404 without transcript, the cached row when it
\* serves, else the model: 500 when it throws, else its coerced content,
\* written to the table when the write works.
GetInsights ==
    /\ inpc = "serving"
    /\ \E req \in InsightsRequests :
           LET kind == KindOf(ChannelIdOf(req.channel))
               row == inTable[kind]
               parsed == coerceInsights(req.reply)
           IN  /\ inReq' = [req EXCEPT !.at = inNow]
               /\ inPrev' = row
               /\ IF ~req.apiKey
                  THEN /\ inResp' = InsightsResponse(400, "error", EmptyPayload, FALSE)
                       /\ UNCHANGED inTable
                  ELSE IF ~req.transcript
                  THEN /\ inResp' = InsightsResponse(404, "error", EmptyPayload, FALSE)
                       /\ UNCHANGED inTable
                  ELSE IF CacheServes(req.read, row, inNow)
                  THEN /\ inResp' = InsightsResponse(200, "cache", row.data.payload, FALSE)
                       /\ UNCHANGED inTable
                  ELSE IF req.reply.kind = "throws"
                  THEN /\ inResp' = InsightsResponse(500, "error", EmptyPayload, TRUE)
                       /\ UNCHANGED inTable
                  ELSE /\ inResp' = InsightsResponse(200, "model", parsed, TRUE)
                       /\ inTable' = IF req.write = "ok"
                                     THEN UpsertInsights(inTable, kind, parsed, inNow)
                                     ELSE inTable
    /\ UNCHANGED <<inNow, inpc>>
    /\ UNCHANGED <<scoreVars, rankVars, questionVars, kmeansVars, tokenVars, lookupVars, topicVars, fetchVars, statsVars, seedVars>>

\* Time passes between two requests.
ClockTicks ==
    /\ inpc = "serving"
    /\ inNow < MaxTicks * TickMs
    /\ inNow' = inNow + TickMs
    /\ UNCHANGED <<inTable, inReq, inPrev, inResp, inpc>>
    /\ UNCHANGED <<scoreVars, rankVars, questionVars, kmeansVars, tokenVars, lookupVars, topicVars, fetchVars, statsVars, seedVars>>

\* The rows found in the table at the start: none; rows written by another
\* writer without ttl, with data that does not parse, with a ttl of one
\* second that has passed; and a row this handler wrote at time 0.
StoredRows ==
    {NoRow,
     InsightsRow(JsonText(Payload(9)), 0, 0),
     InsightsRow(NotJsonText, 0, 0),
     InsightsRow(JsonText(Payload(9)), 0, 1),
     InsightsRow(JsonText(Payload(9)), 0, TtlSeconds)}

InsightKinds == {KindOf(ChannelIdOf(ch)) : ch \in ChannelParams}


\* GET has answered a request.
InsightsAnswered == inResp.status # 0

\* The row exists, its data parses, and its ttl_seconds is 0 or NULL or the
\* time now lies before generated_at + ttl_seconds * 1000.
RowIsValid(row, now) ==
    /\ row # NoRow
    /\ row.data.json
    /\ row.ttl_seconds = 0 \/ now < row.generated_at + row.ttl_seconds * 1000

\* The row of the last request's kind, as the table holds it now.
RowOfRequest == inTable[KindOf(ChannelIdOf(inReq.channel))]

\* The row holds the answered body, written at the time of the request with
\* a ttl of 21600 seconds.
RowReplaced ==
    RowOfRequest = InsightsRow(JsonText(inResp.body), inReq.at, 21600)

-----------------------------------------------------------------------------
(* POST /api/seed: the token guard in front of the database writes *)

\* auth !== `Bearer ${expected}` with any token after "Bearer " accepted.
AuthorizedAnyBearer(auth, expected) == expected # "" /\ StartsWith(auth, "Bearer ")

\* The negation of !expected || auth !== `Bearer ${expected}`
Authorized(auth, expected) == expected # "" /\ auth = "Bearer " \o expected

SeedMessageCap == 1200
SeedTopicCap == 50
SeedStargazerCap == 50
TopicScoreTop == 100

\* A message of the static file: message_id (or id) and text.
SeedMessage(message_id, text) == [message_id |-> message_id, text |-> text]

\* A stargazer of the static snapshot.
SeedStargazer(login, score) == [login |-> login, score |-> score]

\* The tables: discord_messages by message_id, the number of rows of its FTS
\* mirror, discord_topics, gh_stargazers and gh_interesting.
Tables(messageRows, ftsRows, topicRows, stargazerRows, interestingRows) ==
    [messages |-> messageRows, fts |-> ftsRows, topics |-> topicRows,
     stargazers |-> stargazerRows, interesting |-> interestingRows]

EmptyTables == Tables({}, 0, {}, {}, {})

\* Rows of an earlier seed.
SeededTables ==
    Tables({SeedMessage("1", "old text")}, 1,
           {[topic |-> "OAuth Issues", message_id |-> "1", score |-> 100]},
           {"alice"}, {[login |-> "alice", score |-> 10]})

\* INSERT INTO discord_messages .. ON CONFLICT(uid, message_id) DO UPDATE, and
\* the row added to the FTS mirror, for the messages with an id of the last
\* 1200 of the file.
SeedMessages(tables, file) ==
    LET kept == SelectSeq(SliceLast(file, SeedMessageCap), LAMBDA m : m.message_id # "")
        ids == {kept[i].message_id : i \in 1..Len(kept)}
        last(id) == CHOOSE i \in 1..Len(kept) :
                        /\ kept[i].message_id = id
                        /\ \A j \in (i + 1)..Len(kept) : kept[j].message_id # id
    IN  [tables EXCEPT
            !.messages = {r \in @ : r.message_id \notin ids} \cup {kept[last(id)] : id \in ids},
            !.fts = @ + Len(kept)]

\* INSERT INTO discord_topics .. ON CONFLICT DO NOTHING for the first 50
\* examples of the topic, scored Math.max(1, 100 - i).
SeedTopic(tables, topic, list) ==
    LET rows == {[topic |-> topic, message_id |-> list[i].message_id,
                  score |-> Max(1, TopicScoreTop - (i - 1))] :
                     i \in {j \in 1..Min(SeedTopicCap, Len(list)) : list[j].message_id # ""}}
        fresh == {r \in rows :
                     /\ ~\E o \in tables.topics : o.topic = r.topic /\ o.message_id = r.message_id
                     /\ ~\E o \in rows : o.message_id = r.message_id /\ o.score > r.score}
    IN  [tables EXCEPT !.topics = @ \cup fresh]

RECURSIVE SeedTopics(_, _, _)
SeedTopics(tables, examples, n) ==
    IF n = 0 THEN tables
    ELSE SeedTopic(SeedTopics(tables, examples, n - 1), examples[n].topic, examples[n].examples)

\* The upserts of gh_stargazers and gh_interesting for the first 50 of the
\* snapshot.
SeedStargazers(tables, st) ==
    LET kept == Slice0(st, SeedStargazerCap)
        logins == {kept[i].login : i \in 1..Len(kept)}
        last(login) == CHOOSE i \in 1..Len(kept) :
                           /\ kept[i].login = login
                           /\ \A j \in (i + 1)..Len(kept) : kept[j].login # login
    IN  [tables EXCEPT
            !.stargazers = @ \cup logins,
            !.interesting = {r \in @ : r.login \notin logins}
                                \cup {kept[last(login)] : login \in logins}]

\* A static file that was fetched and parsed, or one that was not.
SeedFile(found, content) == [found |-> found, content |-> content]

\* The stage whose first d1Run throws, "none" when no write throws: the stage
\* named by the environment, when it has a row to write.
SeedThrowsAt(env) ==
    CASE env.fails = "messages" /\ env.messages.found
             /\ (\E i \in 1..Len(env.messages.content) :
                     env.messages.content[i].message_id # "") -> "messages"
      [] env.fails = "topics" /\ env.examples.found
             /\ (\E n \in 1..Len(env.examples.content) :
                     \E i \in 1..Min(SeedTopicCap, Len(env.examples.content[n].examples)) :
                         env.examples.content[n].examples[i].message_id # "") -> "topics"
      [] env.fails = "stargazers" /\ env.stargazers.found
             /\ Len(env.stargazers.content) > 0 -> "stargazers"
      [] OTHER -> "none"

\* The writes of an authorized request: the three seeds in turn, up to the
\* stage that throws.
SeedWrites(tables, env) ==
    LET afterMessages == IF env.messages.found
                         THEN SeedMessages(tables, env.messages.content) ELSE tables
        afterTopics == IF env.examples.found
                       THEN SeedTopics(afterMessages, env.examples.content,
                                       Len(env.examples.content))
                       ELSE afterMessages
        afterStargazers == IF env.stargazers.found
                           THEN SeedStargazers(afterTopics, env.stargazers.content)
                           ELSE afterTopics
    IN  CASE SeedThrowsAt(env) = "messages" -> tables
          [] SeedThrowsAt(env) = "topics" -> afterMessages
          [] SeedThrowsAt(env) = "stargazers" -> afterTopics
          [] OTHER -> afterStargazers

\* POST: 401 without the token or with another header; else the three
\* seeds, 200 when every write worked and 500 when one threw.
PostSeed ==
    /\ sdpc = "request"
    /\ IF ~Authorized(sdReq, sdEnv.token)
       THEN /\ sdResp' = 401
            /\ UNCHANGED sdTables
       ELSE /\ sdTables' = SeedWrites(sdTables, sdEnv)
            /\ sdResp' = IF SeedThrowsAt(sdEnv) # "none" THEN 500 ELSE 200
    /\ sdpc' = "answered"
    /\ UNCHANGED <<sdReq, sdEnv>>
    /\ UNCHANGED <<scoreVars, rankVars, questionVars, kmeansVars, tokenVars, lookupVars, topicVars, fetchVars, statsVars, insightVars>>

SeedTokens == {"", "dev-secret"}

AuthorizationHeaders ==
    {"", "Bearer dev-secret", "Bearer other", "Bearer", "dev-secret", "bearer dev-secret",
     "Bearer dev-secret2"}

SeedMessageFiles ==
    {SeedFile(FALSE, <<>>), SeedFile(TRUE, <<>>),
     SeedFile(TRUE, <<SeedMessage("1", "new text"), SeedMessage("", "no id"),
                      SeedMessage("2", "hello")>>)}

SeedExampleFiles ==
    {SeedFile(FALSE, <<>>),
     SeedFile(TRUE, <<[topic |-> "OAuth Issues",
                       examples |-> <<SeedMessage("2", "hello"), SeedMessage("1", "new text")>>]>>)}

SeedStargazerFiles ==
    {SeedFile(FALSE, <<>>),
     SeedFile(TRUE, <<SeedStargazer("alice", 90), SeedStargazer("bob", 0)>>)}

SeedEnvironments ==
    [token : SeedTokens, messages : SeedMessageFiles, examples : SeedExampleFiles,
     stargazers : SeedStargazerFiles, fails : {"none", "messages", "topics", "stargazers"}]

-----------------------------------------------------------------------------
(* Specifications *)

\* The variables of a component while another component is checked.
IdleScore ==
    /\ sg = BaselineStargazer
    /\ scored = NoScore
    /\ spc = "idle"

IdleRank ==
    /\ rankReq = NoRequest
    /\ rankResp = NoResponse
    /\ ghInteresting = <<>>

IdleQuestions ==
    /\ messages = <<>>
    /\ questions = <<>>
    /\ answeredBy = <<>>
    /\ qpc = "idle"

IdleKmeans ==
    /\ vectors = <<>>
    /\ kArg = 0
    /\ centers = <<>>
    /\ assign = <<>>
    /\ it = 0
    /\ kpc = "idle"

IdleTokens ==
    /\ tkInput = JsNull
    /\ tkTokens = <<>>
    /\ tkDoc = <<>>
    /\ tkAgain = <<>>
    /\ tkpc = "idle"

IdleLookup ==
    /\ lkReq = NoLookupRequest
    /\ lkEnv = NoEnvironment
    /\ lkResp = NoLookupResponse
    /\ lkpc = "idle"

IdleTopics ==
    /\ tpMessages = <<>>
    /\ tpDocs = <<>>
    /\ tpClusters = <<>>
    /\ tpTopics = <<>>
    /\ tpExamples = <<>>
    /\ tpIndex = <<>>
    /\ tppc = "idle"

IdleFetch ==
    /\ ftChannel = <<>>
    /\ ftCutoff = 0
    /\ ftBefore = ""
    /\ ftPages = 0
    /\ ftBatch = <<>>
    /\ ftSaved = <<>>
    /\ ftpc = "idle"

IdleStats ==
    /\ stReq = [from |-> 0, to |-> 0]
    /\ stEnv = <<>>
    /\ stMsgs = <<>>
    /\ stResp = NoStats
    /\ stpc = "idle"

IdleInsights ==
    /\ inTable = <<>>
    /\ inNow = 0
    /\ inReq = NoInsightsRequest
    /\ inPrev = NoRow
    /\ inResp = NoInsightsResponse
    /\ inpc = "idle"

IdleSeed ==
    /\ sdReq = ""
    /\ sdEnv = <<>>
    /\ sdTables = <<>>
    /\ sdResp = 0
    /\ sdpc = "idle"

\* heuristicScore applied to one stargazer record.
InitScore ==
    /\ sg \in Stargazers
    /\ scored = NoScore
    /\ spc = "input"
    /\ IdleRank
    /\ IdleQuestions
    /\ IdleKmeans
    /\ IdleTokens
    /\ IdleLookup
    /\ IdleTopics
    /\ IdleFetch
    /\ IdleStats
    /\ IdleInsights
    /\ IdleSeed

NextScore == CallHeuristicScore

SpecScore == InitScore /\ [][NextScore]_vars

\* Ranking operations, one after the other, over one stored table that
\* starts empty.
InitRank ==
    /\ rankReq = NoRequest
    /\ rankResp = NoResponse
    /\ ghInteresting = <<>>
    /\ IdleScore
    /\ IdleQuestions
    /\ IdleKmeans
    /\ IdleTokens
    /\ IdleLookup
    /\ IdleTopics
    /\ IdleFetch
    /\ IdleStats
    /\ IdleInsights
    /\ IdleSeed

NextRank == RunScript \/ GetInteresting \/ GetInterestingCached \/ RankingEnds

SpecRank == InitRank /\ [][NextRank]_vars

\* The unanswered-question detector run on one message list.
InitQuestions ==
    /\ messages \in MessageLists
    /\ questions = <<>>
    /\ answeredBy = <<>>
    /\ qpc = "input"
    /\ IdleScore
    /\ IdleRank
    /\ IdleKmeans
    /\ IdleTokens
    /\ IdleLookup
    /\ IdleTopics
    /\ IdleFetch
    /\ IdleStats
    /\ IdleInsights
    /\ IdleSeed

NextQuestions == DetectUnanswered

SpecQuestions == InitQuestions /\ [][NextQuestions]_vars

\* kmeans run on one list of vectors with one k.
InitKmeans ==
    /\ vectors \in VectorLists
    /\ kArg \in 1..MaxK
    /\ centers = <<>>
    /\ assign = <<>>
    /\ it = 0
    /\ kpc = "start"
    /\ IdleScore
    /\ IdleRank
    /\ IdleQuestions
    /\ IdleTokens
    /\ IdleLookup
    /\ IdleTopics
    /\ IdleFetch
    /\ IdleStats
    /\ IdleInsights
    /\ IdleSeed

NextKmeans == KmeansEmpty \/ KmeansStart \/ KmeansRound \/ KmeansReturn

SpecKmeans == InitKmeans /\ [][NextKmeans]_vars

\* kmeans as a synchronous call, run to its end: a step that can be taken is
\* taken.
InitKmeansRuns ==
    /\ vectors \in RunVectorLists
    /\ kArg \in 1..MaxRunK
    /\ centers = <<>>
    /\ assign = <<>>
    /\ it = 0
    /\ kpc = "start"
    /\ IdleScore
    /\ IdleRank
    /\ IdleQuestions
    /\ IdleTokens
    /\ IdleLookup
    /\ IdleTopics
    /\ IdleFetch
    /\ IdleStats
    /\ IdleInsights
    /\ IdleSeed

SpecKmeansRuns == InitKmeansRuns /\ [][NextKmeans]_vars /\ WF_vars(NextKmeans)

\* tokenize called on one argument.
InitTokens ==
    /\ tkInput \in TokenizeArguments
    /\ tkTokens = <<>>
    /\ tkDoc = <<>>
    /\ tkAgain = <<>>
    /\ tkpc = "input"
    /\ IdleScore
    /\ IdleRank
    /\ IdleQuestions
    /\ IdleKmeans
    /\ IdleLookup
    /\ IdleTopics
    /\ IdleFetch
    /\ IdleStats
    /\ IdleInsights
    /\ IdleSeed

NextTokens == CallTokenize \/ MapDocument \/ TokenizeAgain

SpecTokens == InitTokens /\ [][NextTokens]_vars

\* GET /api/examples called once with one request in one environment.
InitLookup ==
    /\ lkReq \in LookupRequests
    /\ lkEnv \in Environments
    /\ lkResp = NoLookupResponse
    /\ lkpc = "request"
    /\ IdleScore
    /\ IdleRank
    /\ IdleQuestions
    /\ IdleKmeans
    /\ IdleTokens
    /\ IdleTopics
    /\ IdleFetch
    /\ IdleStats
    /\ IdleInsights
    /\ IdleSeed

NextLookup == LookupExamples

SpecLookup == InitLookup /\ [][NextLookup]_vars

InitTopics ==
    /\ tpMessages \in TopicMessageLists
    /\ tpDocs = <<>>
    /\ tpClusters = <<>>
    /\ tpTopics = <<>>
    /\ tpExamples = <<>>
    /\ tpIndex = <<>>
    /\ tppc = "read"
    /\ IdleScore
    /\ IdleRank
    /\ IdleQuestions
    /\ IdleKmeans
    /\ IdleTokens
    /\ IdleLookup
    /\ IdleFetch
    /\ IdleStats
    /\ IdleInsights
    /\ IdleSeed

NextTopics ==
    \/ ClusterMessages
    \/ LabelCluster
    \/ WriteIndexes
    \/ GenerateTopicIndex
    \/ RepairExamples

SpecTopics == InitTopics /\ [][NextTopics]_vars

\* One run of fetch_discord_channel against a channel of the server.
InitFetch ==
    /\ ftChannel \in Channels
    /\ ftCutoff \in Cutoffs
    /\ ftBefore = ""
    /\ ftPages = 0
    /\ ftBatch = <<>>
    /\ ftSaved = <<>>
    /\ ftpc = "loop"
    /\ IdleScore
    /\ IdleRank
    /\ IdleQuestions
    /\ IdleKmeans
    /\ IdleTokens
    /\ IdleLookup
    /\ IdleTopics
    /\ IdleStats
    /\ IdleInsights
    /\ IdleSeed

NextFetch == PagesExhausted \/ RateLimited \/ HttpError \/ FetchPage \/ SaveMessages

SpecFetch == InitFetch /\ [][NextFetch]_vars

\* One request of GET /api/stats.
InitStats ==
    /\ stReq \in [from : FromBounds, to : ToBounds]
    /\ stEnv \in StatEnvironments
    /\ stMsgs = <<>>
    /\ stResp = NoStats
    /\ stpc = "request"
    /\ IdleScore
    /\ IdleRank
    /\ IdleQuestions
    /\ IdleKmeans
    /\ IdleTokens
    /\ IdleLookup
    /\ IdleTopics
    /\ IdleFetch
    /\ IdleInsights
    /\ IdleSeed

NextStats == GetStats

SpecStats == InitStats /\ [][NextStats]_vars

\* Requests of GET /api/insights for one uid, time passing between them.
InitInsights ==
    /\ inTable \in [InsightKinds -> StoredRows]
    /\ inNow = TickMs
    /\ inReq = NoInsightsRequest
    /\ inPrev = NoRow
    /\ inResp = NoInsightsResponse
    /\ inpc = "serving"
    /\ IdleScore
    /\ IdleRank
    /\ IdleQuestions
    /\ IdleKmeans
    /\ IdleTokens
    /\ IdleLookup
    /\ IdleTopics
    /\ IdleFetch
    /\ IdleStats
    /\ IdleSeed

NextInsights == GetInsights \/ ClockTicks

SpecInsights == InitInsights /\ [][NextInsights]_vars

\* One request of POST /api/seed.
InitSeed ==
    /\ sdReq \in AuthorizationHeaders
    /\ sdEnv \in SeedEnvironments
    /\ sdTables \in {EmptyTables, SeededTables}
    /\ sdResp = 0
    /\ sdpc = "request"
    /\ IdleScore
    /\ IdleRank
    /\ IdleQuestions
    /\ IdleKmeans
    /\ IdleTokens
    /\ IdleLookup
    /\ IdleTopics
    /\ IdleFetch
    /\ IdleStats
    /\ IdleInsights

NextSeed == PostSeed

SpecSeed == InitSeed /\ [][NextSeed]_vars

=============================================================================
